---- MODULE Spec2Model ----
(***************************************************************************)
(* State-machine model of functions/migrate_workout_logs.py                *)
(* (process_workouts and its nested helpers).                              *)
(*                                                                         *)
(* Numbers.  The script computes in Python floats; the model computes in   *)
(* exact integers:                                                         *)
(*   - every e1RM that the script keeps unrounded is held multiplied by    *)
(*     30 (weight * (1 + reps/30) = weight * (30 + reps) / 30);            *)
(*   - round() is Python's round-half-to-even on the exact quotient;       *)
(*   - averages and ratios are reduced fractions <<num, den>>.             *)
(* Dates are whole days; the year-month of a date is date \div 30.  A date  *)
(* field holding text instead of a timestamp is held as the negated day.   *)
(***************************************************************************)
EXTENDS Integers, Sequences, FiniteSets, TLC

\* ------------------------------------------------------------------------
\* Bounds of the model
\* ------------------------------------------------------------------------
MaxLogs == 3
MaxSets == 3
MaxRuns == 2
MaxWindow == 5
LongLogs == 22

\* ------------------------------------------------------------------------
\* Generic helpers
\* ------------------------------------------------------------------------
EmptyMap == [x \in {} |-> 0]

Put(f, k, v) == [x \in (DOMAIN f) \cup {k} |-> IF x = k THEN v ELSE f[x]]

Get(f, k, default) == IF k \in DOMAIN f THEN f[k] ELSE default

Max2(a, b) == IF a > b THEN a ELSE b

Min2(a, b) == IF a < b THEN a ELSE b

Abs(a) == IF a < 0 THEN 0 - a ELSE a

RECURSIVE Gcd(_, _)
Gcd(a, b) == IF b = 0 THEN a ELSE Gcd(b, a % b)

\* the value num/den of a Python float division, as a reduced fraction
Frac(num, den) ==
    LET g == Gcd(Abs(num), Abs(den))
    IN  IF num = 0 THEN <<0, 1>> ELSE <<num \div g, den \div g>>

FracAdd(a, b) == Frac(a[1] * b[2] + b[1] * a[2], a[2] * b[2])

FracDiv(a, b) == Frac(a[1] * b[2], a[2] * b[1])

\* Python round(num/den), den > 0: nearest integer, halves to the even one
RoundHalfEven(num, den) ==
    LET q == num \div den
        r == num % den
    IN  IF 2 * r < den THEN q
        ELSE IF 2 * r > den THEN q + 1
        ELSE IF q % 2 = 0 THEN q ELSE q + 1

\* ------------------------------------------------------------------------
\* Constants of the script
\* ------------------------------------------------------------------------
NoDate == 0

NoUser == ""

COMPOUND_LIFTS ==
    {"squat", "bench press", "deadlift", "overhead press", "military press",
     "front squat", "incline bench press", "sumo deadlift", "rdl"}

\* REP_RANGES in dictionary (iteration) order
REP_RANGES ==
    << [category |-> "1RM",  min |-> 1,  max |-> 1],
       [category |-> "3RM",  min |-> 2,  max |-> 3],
       [category |-> "5RM",  min |-> 4,  max |-> 5],
       [category |-> "8RM",  min |-> 6,  max |-> 8],
       [category |-> "12RM", min |-> 9,  max |-> 12],
       [category |-> "15RM", min |-> 13, max |-> 20] >>

\* RPE_TO_PERCENTAGE in dictionary order; rpe2 = 2 * RPE, pct = 100 * percentage
RPE_TO_PERCENTAGE ==
    << [rpe2 |-> 20, pct |-> 100], [rpe2 |-> 19, pct |-> 98],
       [rpe2 |-> 18, pct |-> 96],  [rpe2 |-> 17, pct |-> 94],
       [rpe2 |-> 16, pct |-> 92],  [rpe2 |-> 15, pct |-> 90],
       [rpe2 |-> 14, pct |-> 88],  [rpe2 |-> 13, pct |-> 86],
       [rpe2 |-> 12, pct |-> 84],  [rpe2 |-> 10, pct |-> 82] >>

RecentWindow == 20

DaysPerMonth == 30

\* ------------------------------------------------------------------------
\* The external collections 'exercises' and 'users' (read-only inputs)
\* ------------------------------------------------------------------------
ExerciseDocs ==
    [bench  |-> [name |-> "Bench Press", primaryMuscleGroup |-> "Chest",
                 exerciseType |-> "Barbell", movementPattern |-> "Horizontal Push",
                 equipment |-> "Barbell"],
     pushup |-> [name |-> "Push Up", primaryMuscleGroup |-> "Chest",
                 exerciseType |-> "Bodyweight", movementPattern |-> "Horizontal Push",
                 equipment |-> "None"],
     pullup |-> [name |-> "Pull Up", primaryMuscleGroup |-> "Back",
                 exerciseType |-> "Bodyweight Loadable", movementPattern |-> "Vertical Pull",
                 equipment |-> "Bar"]]

UserDocs == [u1 |-> [weightLbs |-> 180]]

\* the ids whose document lookup (lines 90, 109) raises during this execution
VARIABLE outages

\* str.lower() on the names the exercise documents carry
Lower(name) ==
    CASE name = "Bench Press" -> "bench press"
      [] name = "Push Up" -> "push up"
      [] name = "Pull Up" -> "pull up"
      [] OTHER -> name

default_metadata ==
    [name |-> "Unknown", muscleGroup |-> "Unknown", exerciseType |-> "Unknown",
     isCompoundLift |-> FALSE, movementPattern |-> "Unknown", equipment |-> "Unknown"]

\* the value get_exercise_metadata computes and caches on a cache miss
FetchExerciseMetadata(exercise_id) ==
    IF exercise_id \in outages THEN default_metadata
    ELSE IF exercise_id \in DOMAIN ExerciseDocs
    THEN LET data == ExerciseDocs[exercise_id]
         IN  [name |-> data.name,
              muscleGroup |-> data.primaryMuscleGroup,
              exerciseType |-> data.exerciseType,
              isCompoundLift |-> Lower(data.name) \in COMPOUND_LIFTS,
              movementPattern |-> data.movementPattern,
              equipment |-> data.equipment]
    ELSE default_metadata

\* the value get_user_bodyweight computes and caches on a cache miss
FetchUserBodyweight(user_id) ==
    IF user_id \in outages THEN 0
    ELSE IF user_id \in DOMAIN UserDocs THEN UserDocs[user_id].weightLbs ELSE 0

\* get_exercise_metadata / get_user_bodyweight: cached value, else the fetch
get_exercise_metadata(cache, exercise_id) ==
    IF exercise_id \in DOMAIN cache THEN cache[exercise_id]
    ELSE FetchExerciseMetadata(exercise_id)

get_user_bodyweight(cache, user_id) ==
    IF user_id \in DOMAIN cache THEN cache[user_id]
    ELSE FetchUserBodyweight(user_id)

\* ------------------------------------------------------------------------
\* Set-level calculators
\* ------------------------------------------------------------------------
\* a value of a legacy array is the number n / d, d > 0
Whole(k) == [n |-> k, d |-> 1]

Halves(k) == [n |-> k, d |-> 2]

\* int(x) of a number: truncation toward zero
int(x) == IF x.n >= 0 THEN x.n \div x.d ELSE 0 - ((0 - x.n) \div x.d)

\* "int(x) if x else 0" (lines 556-557, 288-289)
IntOrZero(x) == IF x.n # 0 THEN int(x) ELSE 0

\* a value of a legacy array held as text, e.g. '22.5' for Halves(45); int() of
\* a str that is not an integer literal raises ValueError
AsText(x) == [n |-> x.n, d |-> x.d, text |-> TRUE]

IntRaises(x) == "text" \in DOMAIN x /\ x.d # 1

\* get_rep_range_category: first REP_RANGES entry whose bounds hold the reps
get_rep_range_category(reps) ==
    LET hits == {i \in DOMAIN REP_RANGES :
                    reps >= REP_RANGES[i].min /\ reps <= REP_RANGES[i].max}
    IN  IF hits = {} THEN "15RM"
        ELSE REP_RANGES[CHOOSE i \in hits : \A j \in hits : i <= j].category

\* |adjusted_percentage - pct| multiplied by 100 * e1rm (e1rm is 30 * e1RM > 0)
RpeDiff(weight, reps, e1rm, pct) ==
    Abs(3000 * weight + 2 * Max2(0, reps - 5) * e1rm - pct * e1rm)

\* calculate_effective_rpe, returning 2 * RPE
calculate_effective_rpe(weight, reps, e1rm) ==
    IF e1rm = 0 THEN 10
    ELSE CHOOSE rpe2 \in
             {RPE_TO_PERCENTAGE[
                  CHOOSE i \in DOMAIN RPE_TO_PERCENTAGE :
                      \A j \in DOMAIN RPE_TO_PERCENTAGE :
                          diff[i] < diff[j] \/ (diff[i] = diff[j] /\ i <= j)].rpe2 :
              diff \in {[i \in DOMAIN RPE_TO_PERCENTAGE |->
                           RpeDiff(weight, reps, e1rm, RPE_TO_PERCENTAGE[i].pct)]}} :
             TRUE

\* variant: the multiplier grows twice as fast and reaches its cap at RPE 10
rpe_multiplier_Doubled(rpe2) == Min2(16, 2 * (rpe2 - 12))

\* rpe_multiplier = min(2.0, (rpe - 6) / 4), multiplied by 8
rpe_multiplier(rpe2) == Min2(16, rpe2 - 12)

\* the sum calculate_effective_reps accumulates over sets[1..n], multiplied by 8
RECURSIVE EffectiveRepsSum(_, _, _)
EffectiveRepsSum(sets, n, e1rm) ==
    IF n = 0 THEN 0
    ELSE LET weight == sets[n].weight
             reps == sets[n].reps
             rpe2 == calculate_effective_rpe(weight, reps, e1rm)
         IN  EffectiveRepsSum(sets, n - 1, e1rm)
             + (IF reps > 0 /\ weight > 0 /\ rpe2 >= 14
                THEN reps * rpe_multiplier(rpe2) ELSE 0)

calculate_effective_reps(sets, e1rm) ==
    RoundHalfEven(EffectiveRepsSum(sets, Len(sets), e1rm), 8)

\* a faulty effective weight: the load of the set is added for type Bodyweight too
EffectiveWeight_LoadAdded(metadata, bodyweight, weight) ==
    IF metadata.exerciseType \in {"Bodyweight", "Bodyweight Loadable"}
    THEN bodyweight + weight
    ELSE weight

\* effective weight of a set (lines 498-502, repeated at 561-565, 271-275, 291-295)
EffectiveWeight(metadata, bodyweight, weight) ==
    IF metadata.exerciseType = "Bodyweight" THEN bodyweight
    ELSE IF metadata.exerciseType = "Bodyweight Loadable" THEN bodyweight + weight
    ELSE weight

\* set_e1rm = effective_weight * (1 + reps / 30), multiplied by 30
SetE1RM(effective_weight, reps) == effective_weight * (30 + reps)

\* a faulty guard: a set of zero reps is let through
SetCounts_ZeroAllowed(reps) == reps >= 0

\* the guard 'if reps > 0' of both shapes
SetCounts(reps) == reps > 0

\* 'rep_range not in prs_by_rep_range or set_e1rm > prs_by_rep_range[rep_range]["e1RM"]':
\* the unrounded e1RM of the set against the rounded e1RM of the record
PrReplaces(prs, rep_range, set_e1rm) ==
    rep_range \notin DOMAIN prs \/ set_e1rm > 30 * prs[rep_range].e1RM

\* the per-exercise locals of one workout (lines 471-480), completed_sets (552)
WorkoutLocals ==
    [workout_e1rm |-> 0, workout_volume |-> 0, workout_total_reps |-> 0,
     workout_total_sets |-> 0, intensity_distribution |-> EmptyMap,
     prs_by_rep_range |-> EmptyMap, total_intensity_sum |-> 0,
     valid_sets_for_intensity |-> 0, completed_sets |-> <<>>]

\* one iteration of the set loop; ctx = [metadata, bodyweight, current_e1rm,
\* workout_date]; legacy tells the historical branch, which also counts the set
\* and stores it for the effective-reps calculation
SetStep(w, weight, reps, legacy, ctx) ==
    IF ~SetCounts(reps) THEN w
    ELSE
    LET effective_weight == EffectiveWeight(ctx.metadata, ctx.bodyweight, weight)
        set_e1rm == SetE1RM(effective_weight, reps)
        intensity_percent == RoundHalfEven(3000 * effective_weight, ctx.current_e1rm)
        intensity_bucket == ToString((intensity_percent \div 10) * 10)
        rep_range == get_rep_range_category(reps)
    IN  [workout_e1rm |-> IF set_e1rm > w.workout_e1rm THEN set_e1rm ELSE w.workout_e1rm,
         workout_volume |-> w.workout_volume + effective_weight * reps,
         workout_total_reps |-> w.workout_total_reps + reps,
         workout_total_sets |-> IF legacy THEN w.workout_total_sets + 1
                                ELSE w.workout_total_sets,
         intensity_distribution |->
             IF ctx.current_e1rm > 0
             THEN Put(w.intensity_distribution, intensity_bucket,
                      Get(w.intensity_distribution, intensity_bucket, 0) + 1)
             ELSE w.intensity_distribution,
         prs_by_rep_range |->
             IF PrReplaces(w.prs_by_rep_range, rep_range, set_e1rm)
             THEN Put(w.prs_by_rep_range, rep_range,
                      [e1RM |-> RoundHalfEven(set_e1rm, 30),
                       weight |-> effective_weight,
                       reps |-> reps,
                       date |-> ctx.workout_date])
             ELSE w.prs_by_rep_range,
         total_intensity_sum |->
             IF ctx.current_e1rm > 0 THEN w.total_intensity_sum + intensity_percent
             ELSE w.total_intensity_sum,
         valid_sets_for_intensity |->
             IF ctx.current_e1rm > 0 THEN w.valid_sets_for_intensity + 1
             ELSE w.valid_sets_for_intensity,
         completed_sets |->
             IF legacy
             THEN Append(w.completed_sets, [weight |-> effective_weight, reps |-> reps])
             ELSE w.completed_sets]

\* the 'sets' branch after its first n sets (lines 488-531)
RECURSIVE SetsLoop(_, _, _)
SetsLoop(exercise, n, ctx) ==
    IF n = 0
    THEN [WorkoutLocals EXCEPT !.workout_total_sets = Len(exercise.sets)]
    ELSE SetStep(SetsLoop(exercise, n - 1, ctx),
                 exercise.sets[n].weight, exercise.sets[n].reps, FALSE, ctx)

\* num_sets of the historical branch (line 546)
NumSets(exercise) ==
    Min2(Len(exercise.reps), Min2(Len(exercise.weights), Len(exercise.completed)))

\* the historical branch after its first n indices (lines 552-598)
RECURSIVE LegacyLoop(_, _, _)
LegacyLoop(exercise, n, ctx) ==
    IF n = 0 THEN WorkoutLocals
    ELSE LET w == LegacyLoop(exercise, n - 1, ctx)
         IN  IF exercise.completed[n]
             THEN SetStep(w,
                          IntOrZero(exercise.weights[n]),
                          IntOrZero(exercise.reps[n]),
                          TRUE, ctx)
             ELSE w

\* "'sets' in exercise and isinstance(exercise['sets'], list)"
HasSetsList(exercise) == exercise.hasSets

\* the entry is left by the 'continue' of line 550
SkipsEntry(exercise) == ~HasSetsList(exercise) /\ NumSets(exercise) = 0

\* the first index of the historical branch at which int() raises (lines 556-557,
\* 288-289), 0 for none; an index that is not completed is not converted
RaisesAt(exercise) ==
    LET bad == {i \in 1..NumSets(exercise) :
                   /\ exercise.completed[i]
                   /\ IntRaises(exercise.reps[i]) \/ IntRaises(exercise.weights[i])}
    IN  IF HasSetsList(exercise) \/ bad = {} THEN 0
        ELSE CHOOSE i \in bad : \A j \in bad : i <= j

\* the entry is left by the except of lines 681-683
EntryRaises(exercise) == RaisesAt(exercise) # 0

\* the indices the historical branch handles before it ends or raises
HandledSets(exercise) ==
    IF RaisesAt(exercise) = 0 THEN NumSets(exercise) ELSE RaisesAt(exercise) - 1

\* the workout-level results of one exercise entry (lines 470-605)
EntryResult(exercise, ctx) ==
    LET w == IF HasSetsList(exercise)
             THEN SetsLoop(exercise, Len(exercise.sets), ctx)
             ELSE LegacyLoop(exercise, NumSets(exercise), ctx)
    IN  [w |-> w,
         workout_effective_reps |->
             IF HasSetsList(exercise)
             THEN calculate_effective_reps(exercise.sets, ctx.current_e1rm)
             ELSE calculate_effective_reps(w.completed_sets, ctx.current_e1rm),
         average_intensity_percent |->
             IF w.valid_sets_for_intensity > 0
             THEN RoundHalfEven(w.total_intensity_sum, w.valid_sets_for_intensity)
             ELSE 0]

\* ------------------------------------------------------------------------
\* Workout logs
\* ------------------------------------------------------------------------
\* a date field that holds a string (legacy 'date' written as text): a str is
\* truthy, orders among strs, and has neither '-' nor strftime
TextDate(day) == 0 - day

IsTextDate(d) == d < 0

\* the position of a date among dates of its own type
DayOf(d) == Abs(d)

\* "workout_data.get('completedDate') or workout_data.get('date')"
EffectiveDate(log) ==
    IF log.completedDate # NoDate THEN log.completedDate ELSE log.date

\* any(ex.get('exerciseId') == exercise_id for ex in exercises)
HasExercise(log, exercise_id) ==
    \E i \in DOMAIN log.exercises : log.exercises[i].exerciseId = exercise_id

\* index of next(ex for ex in exercises if ex.get('exerciseId') == exercise_id),
\* 0 for None
FirstEntry(log, exercise_id) ==
    IF HasExercise(log, exercise_id)
    THEN CHOOSE i \in DOMAIN log.exercises :
            /\ log.exercises[i].exerciseId = exercise_id
            /\ \A j \in 1..(i - 1) : log.exercises[j].exerciseId # exercise_id
    ELSE 0

\* list.sort(key=date, reverse=True) and list.sort(key=date) are stable:
\* elements of equal key keep their order.
\* variant: the logs of a user are sorted oldest first
DescPosition_OldestFirst(seq, n, i) ==
    Cardinality({j \in 1..n :
                    DayOf(EffectiveDate(seq[j])) < DayOf(EffectiveDate(seq[i]))})
    + Cardinality({j \in 1..i :
                      DayOf(EffectiveDate(seq[j])) = DayOf(EffectiveDate(seq[i]))})

\* the position of seq[i] after the sort of line 414 of the first n logs:
\* behind every log of a later date and every earlier log of the same date
DescPosition(seq, n, i) ==
    Cardinality({j \in 1..n :
                    DayOf(EffectiveDate(seq[j])) > DayOf(EffectiveDate(seq[i]))})
    + Cardinality({j \in 1..i :
                      DayOf(EffectiveDate(seq[j])) = DayOf(EffectiveDate(seq[i]))})

\* the position of seq[i] after the sort of line 311 of the first n points
AscPosition(seq, n, i) ==
    Cardinality({j \in 1..n : DayOf(seq[j].date) < DayOf(seq[i].date)})
    + Cardinality({j \in 1..i : DayOf(seq[j].date) = DayOf(seq[i].date)})

\* the first n logs of a user, newest first (lines 414-417)
SortDesc(seq, n) ==
    [p \in 1..n |-> seq[CHOOSE i \in 1..n : DescPosition(seq, n, i) = p]]

\* the first n points of e1rm_history, oldest first (line 311)
SortAsc(seq, n) ==
    [p \in 1..n |-> seq[CHOOSE i \in 1..n : AscPosition(seq, n, i) = p]]

\* variant: the window is the last 20 logs of the list
RecentWorkouts_Oldest(user_logs) ==
    SubSeq(user_logs, Len(user_logs) - Min2(RecentWindow, Len(user_logs)) + 1,
           Len(user_logs))

\* user_workouts[user_id][:20]
RecentWorkouts(user_logs) == SubSeq(user_logs, 1, Min2(RecentWindow, Len(user_logs)))

\* ------------------------------------------------------------------------
\* Temporal signal detectors
\* ------------------------------------------------------------------------
MovementPattern(cache, exercise_id) ==
    get_exercise_metadata(cache, exercise_id).movementPattern

\* has_similar_exercise (lines 229-233)
HasSimilarExercise(log, exercise_id, cache) ==
    \E i \in DOMAIN log.exercises :
        MovementPattern(cache, log.exercises[i].exerciseId)
            = MovementPattern(cache, exercise_id)

\* "(a - b).days" (lines 219, 336) with an operand that is a str: TypeError
DateDiffRaises(a, b) == IsTextDate(a) \/ IsTextDate(b)

\* the loop of calculate_staleness_score from window position i on, with
\* days_since_variation = days so far; raised: line 219 raised on the way
RECURSIVE StalenessWalk(_, _, _, _, _, _)
StalenessWalk(exercise_id, current_date, recent_workouts, i, days, cache) ==
    IF i > Len(recent_workouts)
    THEN [days_since_variation |-> days, found_variation |-> FALSE, raised |-> FALSE]
    ELSE LET doc == recent_workouts[i]
             workout_date == EffectiveDate(doc)
             days_diff == current_date - workout_date
         IN  IF workout_date = NoDate
             THEN StalenessWalk(exercise_id, current_date, recent_workouts, i + 1, days, cache)
             ELSE IF DateDiffRaises(current_date, workout_date)
             THEN [days_since_variation |-> days, found_variation |-> FALSE,
                   raised |-> TRUE]
             ELSE IF HasExercise(doc, exercise_id)
             THEN StalenessWalk(exercise_id, current_date, recent_workouts, i + 1,
                                days_diff, cache)
             ELSE IF HasSimilarExercise(doc, exercise_id, cache)
             THEN [days_since_variation |-> days, found_variation |-> TRUE,
                   raised |-> FALSE]
             ELSE StalenessWalk(exercise_id, current_date, recent_workouts, i + 1, days, cache)

\* the two return statements of calculate_staleness_score (lines 240-243)
StalenessScore(found_variation, days_since_variation) ==
    IF found_variation THEN Min2(100, days_since_variation * 2)
    ELSE Min2(100, days_since_variation * 3)

calculate_staleness_score(exercise_id, user_id, current_date, recent_workouts, cache) ==
    LET r == StalenessWalk(exercise_id, current_date, recent_workouts, 1, 0, cache)
    IN  IF r.raised THEN 0
        ELSE StalenessScore(r.found_variation, r.days_since_variation)

\* the exercise ids calculate_staleness_score passes to get_exercise_metadata
\* for the workout of current_date
RECURSIVE StalenessLookups(_, _, _, _, _)
StalenessLookups(exercise_id, current_date, recent_workouts, i, cache) ==
    IF i > Len(recent_workouts) THEN {}
    ELSE LET doc == recent_workouts[i]
             rest == StalenessLookups(exercise_id, current_date, recent_workouts,
                                      i + 1, cache)
             similar == {j \in DOMAIN doc.exercises :
                            MovementPattern(cache, doc.exercises[j].exerciseId)
                                = MovementPattern(cache, exercise_id)}
             last == IF similar = {} THEN Len(doc.exercises)
                     ELSE CHOOSE j \in similar : \A k \in similar : j <= k
         IN  IF EffectiveDate(doc) = NoDate THEN rest
             ELSE IF DateDiffRaises(current_date, EffectiveDate(doc)) THEN {}
             ELSE IF HasExercise(doc, exercise_id) THEN rest
             ELSE {exercise_id} \cup {doc.exercises[j].exerciseId : j \in 1..last}
                  \cup (IF similar = {} THEN rest ELSE {})

\* max_e1rm of one window entry in detect_plateau (lines 260-298), times 30
RECURSIVE PlateauSetsMax(_, _, _, _)
PlateauSetsMax(exercise, n, metadata, bodyweight) ==
    IF n = 0 THEN 0
    ELSE LET weight == exercise.sets[n].weight
             reps == exercise.sets[n].reps
             below == PlateauSetsMax(exercise, n - 1, metadata, bodyweight)
         IN  IF reps > 0
             THEN Max2(below, SetE1RM(EffectiveWeight(metadata, bodyweight, weight), reps))
             ELSE below

RECURSIVE PlateauLegacyMax(_, _, _, _)
PlateauLegacyMax(exercise, n, metadata, bodyweight) ==
    IF n = 0 THEN 0
    ELSE LET reps == IntOrZero(exercise.reps[n])
             weight == IntOrZero(exercise.weights[n])
             below == PlateauLegacyMax(exercise, n - 1, metadata, bodyweight)
         IN  IF exercise.completed[n] /\ reps > 0
             THEN Max2(below, SetE1RM(EffectiveWeight(metadata, bodyweight, weight), reps))
             ELSE below

PlateauMaxE1RM(exercise, metadata, bodyweight) ==
    IF HasSetsList(exercise)
    THEN PlateauSetsMax(exercise, Len(exercise.sets), metadata, bodyweight)
    ELSE PlateauLegacyMax(exercise, NumSets(exercise), metadata, bodyweight)

\* e1rm_history after the first n window entries (lines 252-305): in window
\* order, one point for every document whose first entry of the exercise has
\* max_e1rm > 0
E1rmHistory(exercise_id, recent_workouts, n, metadata, bodyweight) ==
    LET max_e1rm(i) ==
            PlateauMaxE1RM(recent_workouts[i].exercises[
                               FirstEntry(recent_workouts[i], exercise_id)],
                           metadata, bodyweight)
        kept == {i \in 1..n : /\ FirstEntry(recent_workouts[i], exercise_id) # 0
                              /\ max_e1rm(i) > 0}
        nth(j) == CHOOSE i \in kept : Cardinality({m \in kept : m <= i}) = j
    IN  [j \in 1..Cardinality(kept) |->
            [date |-> EffectiveDate(recent_workouts[nth(j)]), e1RM |-> max_e1rm(nth(j))]]

\* the first window document at which the loop of detect_plateau raises (the
\* int() of lines 288-289 in the first entry of the exercise), 0 for none
PlateauRaisesAt(exercise_id, recent_workouts) ==
    LET bad == {n \in DOMAIN recent_workouts :
                   /\ HasExercise(recent_workouts[n], exercise_id)
                   /\ EntryRaises(recent_workouts[n].exercises[
                                      FirstEntry(recent_workouts[n], exercise_id)])}
    IN  IF bad = {} THEN 0 ELSE CHOOSE n \in bad : \A m \in bad : n <= m

\* 'if len(e1rm_history) < 4' (line 307)
InsufficientData(e1rm_history) == Len(e1rm_history) < 4

\* is_plateaued (lines 315-316): every point <= max_recent * 1.02
IsPlateaued(recent_4) ==
    LET max_recent == CHOOSE m \in {recent_4[i].e1RM : i \in 1..4} :
                          \A i \in 1..4 : recent_4[i].e1RM <= m
    IN  \A i \in 1..4 : 100 * recent_4[i].e1RM <= 102 * max_recent

\* the sort of line 311 compares keys of different types (None, str,
\* datetime): TypeError
HistorySortRaises(e1rm_history) ==
    \E i, j \in DOMAIN e1rm_history :
        \/ e1rm_history[i].date = NoDate
        \/ IsTextDate(e1rm_history[i].date) # IsTextDate(e1rm_history[j].date)

\* what the except of lines 345-347 returns
PlateauError == [isPlateaued |-> FALSE, plateauDays |-> 0, trend |-> "error"]

\* detect_plateau; metadata and bodyweight are what its resolver calls return
detect_plateau(exercise_id, user_id, recent_workouts, metadata, bodyweight) ==
    IF PlateauRaisesAt(exercise_id, recent_workouts) # 0 THEN PlateauError
    ELSE
    LET e1rm_history == E1rmHistory(exercise_id, recent_workouts, Len(recent_workouts),
                                    metadata, bodyweight)
    IN  IF InsufficientData(e1rm_history)
        THEN [isPlateaued |-> FALSE, plateauDays |-> 0, trend |-> "insufficient_data"]
        ELSE IF HistorySortRaises(e1rm_history) THEN PlateauError
        ELSE
        LET sorted == SortAsc(e1rm_history, Len(e1rm_history))
            recent_4 == SubSeq(sorted, Len(sorted) - 3, Len(sorted))
            is_plateaued == IsPlateaued(recent_4)
            first_2 == recent_4[1].e1RM + recent_4[2].e1RM
            last_2 == recent_4[3].e1RM + recent_4[4].e1RM
            trend == IF 100 * (last_2 - first_2) > 2 * first_2 THEN "improving"
                     ELSE IF 100 * (last_2 - first_2) < (0 - 2) * first_2 THEN "declining"
                     ELSE "stable"
            plateau_days ==
                IF is_plateaued /\ recent_4[1].date # NoDate /\ recent_4[4].date # NoDate
                THEN recent_4[4].date - recent_4[1].date ELSE 0
        IN  IF is_plateaued /\ DateDiffRaises(recent_4[4].date, recent_4[1].date)
            THEN PlateauError
            ELSE [isPlateaued |-> is_plateaued,
                  plateauDays |-> plateau_days,
                  trend |-> trend,
                  trendPercent |-> Frac(100 * (last_2 - first_2), first_2)]

\* detect_plateau calls get_user_bodyweight: some counted set of the exercise in
\* the window belongs to a Bodyweight or Bodyweight Loadable exercise
PlateauNeedsBodyweight(exercise_id, recent_workouts, metadata) ==
    /\ metadata.exerciseType \in {"Bodyweight", "Bodyweight Loadable"}
    /\ \E n \in IF PlateauRaisesAt(exercise_id, recent_workouts) = 0
                THEN DOMAIN recent_workouts
                ELSE 1..PlateauRaisesAt(exercise_id, recent_workouts) :
          LET k == FirstEntry(recent_workouts[n], exercise_id)
              exercise == recent_workouts[n].exercises[k]
          IN  /\ k # 0
              /\ IF HasSetsList(exercise)
                 THEN \E i \in DOMAIN exercise.sets : exercise.sets[i].reps > 0
                 ELSE \E i \in 1..HandledSets(exercise) :
                         exercise.completed[i] /\ IntOrZero(exercise.reps[i]) > 0

\* ------------------------------------------------------------------------
\* Muscle balance (reads the stored userAnalytics collection)
\* ------------------------------------------------------------------------
RECURSIVE SumE1RM(_, _)
SumE1RM(docs, keys) ==
    IF keys = {} THEN 0
    ELSE LET k == CHOOSE x \in keys : TRUE
         IN  docs[k].e1RM + SumE1RM(docs, keys \ {k})

\* sum(avg_strength.get(muscle, 0) for muscle in muscles), muscles a sequence
RECURSIVE SumStrength(_, _, _)
SumStrength(avg_strength, muscles, n) ==
    IF n = 0 THEN <<0, 1>>
    ELSE FracAdd(SumStrength(avg_strength, muscles, n - 1),
                 Get(avg_strength, muscles[n], <<0, 1>>))

\* calculate_muscle_balance(user_id) over the stored exerciseAnalytics documents
\* (keys <<user, exercise>>); the stored e1RM is 30 * e1RM
calculate_muscle_balance(exerciseAnalytics, user_id) ==
    LET counted == {k \in DOMAIN exerciseAnalytics :
                       /\ k[1] = user_id
                       /\ exerciseAnalytics[k].muscleGroup # ""
                       /\ exerciseAnalytics[k].e1RM > 0}
        groups == {exerciseAnalytics[k].muscleGroup : k \in counted}
        of(g) == {k \in counted : exerciseAnalytics[k].muscleGroup = g}
        avg_strength == [g \in groups |->
                            Frac(SumE1RM(exerciseAnalytics, of(g)),
                                 30 * Cardinality(of(g)))]
        push_strength == SumStrength(avg_strength, <<"Chest", "Shoulders", "Triceps">>, 3)
        pull_strength == SumStrength(avg_strength, <<"Back", "Biceps">>, 2)
        r1 == IF pull_strength[1] > 0
              THEN Put(EmptyMap, "pushPullRatio", FracDiv(push_strength, pull_strength))
              ELSE EmptyMap
        r2 == IF "Quadriceps" \in groups /\ "Hamstrings" \in groups
              THEN Put(r1, "quadHamstringRatio",
                       FracDiv(avg_strength["Quadriceps"], avg_strength["Hamstrings"]))
              ELSE r1
    IN  [muscleGroupStrength |-> avg_strength, ratios |-> r2]

\* ------------------------------------------------------------------------
\* Aggregation merge (section 3 of process_workouts)
\* ------------------------------------------------------------------------
\* "volume / reps if reps > 0 else 0"
AverageIntensity(volume, reps) == IF reps > 0 THEN Frac(volume, reps) ELSE <<0, 1>>

\* first encounter of the exercise (lines 619-637)
CreateAnalytics(metadata, r, staleness_score, plateau_data) ==
    [exerciseName |-> metadata.name,
     muscleGroup |-> metadata.muscleGroup,
     exerciseType |-> metadata.exerciseType,
     isCompoundLift |-> metadata.isCompoundLift,
     movementPattern |-> metadata.movementPattern,
     equipment |-> metadata.equipment,
     e1RM |-> r.w.workout_e1rm,
     totalVolume |-> r.w.workout_volume,
     totalSets |-> r.w.workout_total_sets,
     totalReps |-> r.w.workout_total_reps,
     totalEffectiveReps |-> r.workout_effective_reps,
     averageIntensity |-> AverageIntensity(r.w.workout_volume, r.w.workout_total_reps),
     averageIntensityPercent |-> r.average_intensity_percent,
     intensityDistribution |-> r.w.intensity_distribution,
     stalenessScore |-> staleness_score,
     plateauData |-> plateau_data,
     prsByRepRange |-> r.w.prs_by_rep_range]

\* a faulty merge: the e1RM of the latest workout overwrites the stored one
MergedE1RM_Overwritten(old_e1rm, workout_e1rm) == workout_e1rm

\* "if workout_e1rm > ea.get('e1RM', 0): ea['e1RM'] = workout_e1rm"
MergedE1RM(old_e1rm, workout_e1rm) ==
    IF workout_e1rm > old_e1rm THEN workout_e1rm ELSE old_e1rm

\* variant: the workout's bucket count replaces the stored one
MergeDistribution_Replaced(old, new) ==
    [b \in (DOMAIN old) \cup (DOMAIN new) |-> Get(new, b, Get(old, b, 0))]

\* merge of the intensity distributions (lines 662-663)
MergeDistribution(old, new) ==
    [b \in (DOMAIN old) \cup (DOMAIN new) |-> Get(old, b, 0) + Get(new, b, 0)]

\* merge of the PR tables (lines 666-668): rounded e1RM against rounded e1RM
MergePrs(old, new) ==
    [rr \in (DOMAIN old) \cup (DOMAIN new) |->
        IF rr \notin DOMAIN new THEN old[rr]
        ELSE IF rr \notin DOMAIN old \/ new[rr].e1RM > old[rr].e1RM THEN new[rr]
        ELSE old[rr]]

\* later encounters of the exercise (lines 640-668)
UpdateAnalytics(ea, metadata, r, staleness_score, plateau_data) ==
    [exerciseName |-> metadata.name,
     muscleGroup |-> metadata.muscleGroup,
     exerciseType |-> metadata.exerciseType,
     isCompoundLift |-> metadata.isCompoundLift,
     movementPattern |-> metadata.movementPattern,
     equipment |-> metadata.equipment,
     e1RM |-> MergedE1RM(ea.e1RM, r.w.workout_e1rm),
     totalVolume |-> ea.totalVolume + r.w.workout_volume,
     totalSets |-> ea.totalSets + r.w.workout_total_sets,
     totalReps |-> ea.totalReps + r.w.workout_total_reps,
     totalEffectiveReps |-> ea.totalEffectiveReps + r.workout_effective_reps,
     averageIntensity |-> AverageIntensity(ea.totalVolume + r.w.workout_volume,
                                           ea.totalReps + r.w.workout_total_reps),
     averageIntensityPercent |-> r.average_intensity_percent,
     intensityDistribution |-> MergeDistribution(ea.intensityDistribution,
                                                 r.w.intensity_distribution),
     stalenessScore |-> staleness_score,
     plateauData |-> plateau_data,
     prsByRepRange |-> MergePrs(ea.prsByRepRange, r.w.prs_by_rep_range)]

MergeExercise(exercise_analytics, exercise_id, metadata, r, staleness_score, plateau_data) ==
    IF exercise_id \notin DOMAIN exercise_analytics
    THEN Put(exercise_analytics, exercise_id,
             CreateAnalytics(metadata, r, staleness_score, plateau_data))
    ELSE Put(exercise_analytics, exercise_id,
             UpdateAnalytics(exercise_analytics[exercise_id], metadata, r,
                             staleness_score, plateau_data))

\* the per-log locals of lines 449-452
LogTotals ==
    [total_workout_volume |-> 0, total_effective_reps |-> 0,
     muscle_group_volume |-> EmptyMap, compound_lift_volume |-> EmptyMap]

\* lines 670-679
AddToLogTotals(t, metadata, r) ==
    [total_workout_volume |-> t.total_workout_volume + r.w.workout_volume,
     total_effective_reps |-> t.total_effective_reps + r.workout_effective_reps,
     muscle_group_volume |->
         Put(t.muscle_group_volume, metadata.muscleGroup,
             Get(t.muscle_group_volume, metadata.muscleGroup, 0) + r.w.workout_volume),
     compound_lift_volume |->
         IF metadata.isCompoundLift
         THEN Put(t.compound_lift_volume, metadata.name,
                  Get(t.compound_lift_volume, metadata.name, 0) + r.w.workout_volume)
         ELSE t.compound_lift_volume]

\* workout_date.strftime('%Y-%m'), as the number of the month
MonthStr(workout_date) == workout_date \div DaysPerMonth

\* variant: the workout's volume of a key replaces the month's
MergeVolumes_Replaced(old, new) ==
    [k \in (DOMAIN old) \cup (DOMAIN new) |-> Get(new, k, Get(old, k, 0))]

\* lines 704-709: the month's volume of a key grows by the workout's
MergeVolumes(old, new) ==
    [k \in (DOMAIN old) \cup (DOMAIN new) |-> Get(old, k, 0) + Get(new, k, 0)]

\* section 4 (lines 692-715)
MergeMonthly(monthly_analytics, month_str, t, muscle_balance) ==
    IF month_str \notin DOMAIN monthly_analytics
    THEN Put(monthly_analytics, month_str,
             [totalVolume |-> t.total_workout_volume,
              totalWorkouts |-> 1,
              totalEffectiveReps |-> t.total_effective_reps,
              muscleGroupVolume |-> t.muscle_group_volume,
              compoundLiftVolume |-> t.compound_lift_volume,
              muscleBalance |-> muscle_balance])
    ELSE LET m == monthly_analytics[month_str]
         IN  Put(monthly_analytics, month_str,
                 [totalVolume |-> m.totalVolume + t.total_workout_volume,
                  totalWorkouts |-> m.totalWorkouts + 1,
                  totalEffectiveReps |-> m.totalEffectiveReps + t.total_effective_reps,
                  muscleGroupVolume |-> MergeVolumes(m.muscleGroupVolume,
                                                     t.muscle_group_volume),
                  compoundLiftVolume |-> MergeVolumes(m.compoundLiftVolume,
                                                      t.compound_lift_volume),
                  muscleBalance |-> muscle_balance])

\* ------------------------------------------------------------------------
\* State
\* ------------------------------------------------------------------------
VARIABLES
    logs,                     \* the stream of finished workoutLogs documents
    store,                    \* the userAnalytics collection in storage
    pc,                       \* where the script is
    run,                      \* number of the current execution of the script
    user_order,               \* insertion order of user_workouts
    user_workouts,            \* user id -> that user's log documents
    all_users_analytics,      \* user id -> exercise_analytics, monthly_analytics
    analytics_order,          \* insertion order of all_users_analytics
    user_bodyweight_cache,
    exercise_metadata_cache,
    user_idx, log_idx,        \* position of the second pass in user_workouts
    exercise_idx,             \* exercises of the current log already handled
    totals,                   \* per-log locals of lines 449-452
    write_idx,                \* position of the write loop
    failed_commits,           \* users whose batch.commit() raised in this run
    raised,                   \* the exception line 719 caught, "" for none
    merged_e1rms,             \* history: workout e1RMs merged per <<user, exercise>>
    best_sets,                \* history: highest set e1RM per <<user, exercise, label>>
    written,                  \* history: run -> documents its batches committed
    last_entry,               \* history: the exercise entry handled last
    batches,                  \* history: the batches of this run, in commit order
    lookups,                  \* history: <<collection, id>> -> document lookups made in this run
    merged_entries,           \* history: per-workout contributions merged per <<user, exercise>>
    ret                       \* result of a detector called on its own

vars == <<logs, merged_entries, outages, lookups, batches, store, pc, run, user_order, user_workouts, all_users_analytics,
          analytics_order, user_bodyweight_cache, exercise_metadata_cache,
          user_idx, log_idx, exercise_idx, totals, write_idx, failed_commits,
          raised, merged_e1rms, best_sets, written, last_entry, ret>>

\* ------------------------------------------------------------------------
\* Input domains
\* ------------------------------------------------------------------------
Set(w, r) == [weight |-> w, reps |-> r]

SetsEntry(id, sets) ==
    [exerciseId |-> id, hasSets |-> TRUE, sets |-> sets,
     reps |-> <<>>, weights |-> <<>>, completed |-> <<>>]

LegacyEntry(id, reps, weights, completed) ==
    [exerciseId |-> id, hasSets |-> FALSE, sets |-> <<>>,
     reps |-> reps, weights |-> weights, completed |-> completed]

Log(user, completedDate, date, exercises) ==
    [userId |-> user, completedDate |-> completedDate, date |-> date,
     exercises |-> exercises]

EarlyDay == 40
LateDay == 75

\* the documents a stream of the whole-run specification is drawn from
LogPool ==
    { Log("u1", LateDay, NoDate,
          <<SetsEntry("bench", <<Set(100, 5), Set(100, 8)>>)>>),
      Log("u1", EarlyDay, NoDate,
          <<SetsEntry("pushup", <<Set(20, 8)>>)>>),
      Log("u1", NoDate, EarlyDay,
          <<LegacyEntry("bench", <<Whole(5), Whole(0)>>, <<Halves(201), Whole(100)>>,
                        <<TRUE, TRUE>>)>>),
      Log("u1", NoDate, NoDate,
          <<SetsEntry("bench", <<Set(100, 5)>>)>>),
      Log("u2", EarlyDay, NoDate,
          <<SetsEntry("bench", <<Set(103, 5), Set(106, 4)>>)>>),
      Log("u1", LateDay, NoDate,
          <<SetsEntry("bench", <<>>),
            LegacyEntry("bench", <<Whole(5)>>, <<Whole(100)>>, <<>>),
            LegacyEntry("pushup", <<Whole(8), Whole(8)>>,
                        <<Whole(20), AsText(Halves(45))>>, <<TRUE, TRUE>>),
            SetsEntry("pullup", <<Set(20, 8)>>)>>),
      Log(NoUser, EarlyDay, NoDate,
          <<SetsEntry("bench", <<Set(100, 5)>>)>>),
      Log("u1", EarlyDay, NoDate, <<>>),
      Log("u1", EarlyDay, NoDate, <<LegacyEntry("bench", <<>>, <<>>, <<>>)>>),
      Log("u2", NoDate, TextDate(EarlyDay),
          <<SetsEntry("bench", <<Set(100, 5)>>)>>) }

EmptyStore ==
    [exerciseAnalytics |-> EmptyMap, prHistory |-> EmptyMap,
     monthlyAnalytics |-> EmptyMap]

\* the state of the script's variables when process_workouts is entered
Fresh ==
    /\ pc = "fetch"
    /\ user_order = <<>>
    /\ user_workouts = EmptyMap
    /\ all_users_analytics = EmptyMap
    /\ analytics_order = <<>>
    /\ user_bodyweight_cache = EmptyMap
    /\ exercise_metadata_cache = EmptyMap
    /\ user_idx = 1
    /\ log_idx = 1
    /\ exercise_idx = 0
    /\ totals = LogTotals
    /\ write_idx = 1
    /\ failed_commits = {}
    /\ raised = ""
    /\ merged_e1rms = EmptyMap
    /\ best_sets = EmptyMap
    /\ last_entry = [kind |-> "none"]
    /\ merged_entries = EmptyMap
    /\ lookups = EmptyMap
    /\ batches = <<>>

Init ==
    /\ logs \in UNION {[1..n -> LogPool] : n \in 0..MaxLogs}
    /\ store = EmptyStore
    /\ outages = {}
    /\ run = 1
    /\ written = EmptyMap
    /\ ret = [kind |-> "none"]
    /\ Fresh

\* ------------------------------------------------------------------------
\* First pass: fetch, group by user, sort (lines 397-417)
\* ------------------------------------------------------------------------
\* user ids in the order the first pass inserts them into user_workouts
FirstSeen(stream, n) ==
    LET ids == {stream[i].userId : i \in 1..n} \ {NoUser}
        first(u) == CHOOSE i \in 1..n :
                        /\ stream[i].userId = u
                        /\ \A j \in 1..(i - 1) : stream[j].userId # u
    IN  [p \in 1..Cardinality(ids) |->
            CHOOSE u \in ids : Cardinality({v \in ids : first(v) <= first(u)}) = p]

LogsOf(stream, user_id) == SelectSeq(stream, LAMBDA log : log.userId = user_id)

\* the sort of line 414 compares a key that is None, or a str with a datetime:
\* TypeError.  Any list of two or more logs holding a log without completedDate
\* and date, or logs of both date types, makes such a comparison.
SortRaises(user_logs) ==
    /\ Len(user_logs) >= 2
    /\ \E i, j \in DOMAIN user_logs :
          \/ EffectiveDate(user_logs[i]) = NoDate
          \/ IsTextDate(EffectiveDate(user_logs[i]))
                 # IsTextDate(EffectiveDate(user_logs[j]))

Grouped(stream) ==
    LET order == FirstSeen(stream, Len(stream))
    IN  [u \in {order[i] : i \in DOMAIN order} |-> LogsOf(stream, u)]

\* pc after the second pass ran out of logs: the write loop, which ends at once
\* when all_users_analytics is empty
AfterCompute(order) == IF Len(order) = 0 THEN "done" ELSE "write"

FetchLogs ==
    /\ pc = "fetch"
    /\ \A u \in DOMAIN Grouped(logs) : ~SortRaises(Grouped(logs)[u])
    /\ user_order' = FirstSeen(logs, Len(logs))
    /\ user_workouts' = [u \in DOMAIN Grouped(logs) |->
                            SortDesc(Grouped(logs)[u], Len(Grouped(logs)[u]))]
    /\ pc' = IF Len(user_order') = 0 THEN AfterCompute(analytics_order) ELSE "compute"
    /\ UNCHANGED <<logs, merged_entries, outages, lookups, batches, store, run, all_users_analytics, analytics_order,
                   user_bodyweight_cache, exercise_metadata_cache, user_idx, log_idx,
                   exercise_idx, totals, write_idx, failed_commits, raised,
                   merged_e1rms, best_sets, written, last_entry, ret>>

\* the sort raises inside the try of line 397: line 719 prints and returns
FetchLogsSortRaises ==
    /\ pc = "fetch"
    /\ \E u \in DOMAIN Grouped(logs) : SortRaises(Grouped(logs)[u])
    /\ pc' = "aborted"
    /\ raised' = "TypeError"
    /\ UNCHANGED <<logs, merged_entries, outages, lookups, batches, store, run, user_order, user_workouts, all_users_analytics,
                   analytics_order, user_bodyweight_cache, exercise_metadata_cache,
                   user_idx, log_idx, exercise_idx, totals, write_idx, failed_commits,
                   merged_e1rms, best_sets, written, last_entry, ret>>

\* the query of line 399-404 raises: line 719 prints and returns
FetchLogsFails ==
    /\ pc = "fetch"
    /\ pc' = "aborted"
    /\ raised' = "StorageError"
    /\ UNCHANGED <<logs, merged_entries, outages, lookups, batches, store, run, user_order, user_workouts, all_users_analytics,
                   analytics_order, user_bodyweight_cache, exercise_metadata_cache,
                   user_idx, log_idx, exercise_idx, totals, write_idx, failed_commits,
                   merged_e1rms, best_sets, written, last_entry, ret>>

\* ------------------------------------------------------------------------
\* Second pass (lines 421-715)
\* ------------------------------------------------------------------------
CurrentUser == user_order[user_idx]

CurrentLog == user_workouts[CurrentUser][log_idx]

\* "if not user_id or not exercises or not workout_date" (line 437)
SkipsLog(log) ==
    \/ log.userId = NoUser
    \/ Len(log.exercises) = 0
    \/ EffectiveDate(log) = NoDate

\* the loops of lines 421-422 move to the next log, or the second pass ends
NextLog ==
    /\ exercise_idx' = 0
    /\ totals' = LogTotals
    /\ IF log_idx < Len(user_workouts[CurrentUser])
       THEN /\ log_idx' = log_idx + 1
            /\ user_idx' = user_idx
            /\ pc' = "compute"
       ELSE /\ log_idx' = 1
            /\ user_idx' = user_idx + 1
            /\ pc' = IF user_idx < Len(user_order) THEN "compute"
                     ELSE AfterCompute(analytics_order)

SkipLog ==
    /\ pc = "compute"
    /\ exercise_idx = 0
    /\ SkipsLog(CurrentLog)
    /\ NextLog
    /\ UNCHANGED <<logs, merged_entries, outages, lookups, batches, store, run, user_order, user_workouts, all_users_analytics,
                   analytics_order, user_bodyweight_cache, exercise_metadata_cache,
                   write_idx, failed_commits, raised, merged_e1rms, best_sets, written,
                   last_entry, ret>>

\* history: the ids among those passed to a resolver that miss the cache, and
\* the lookup counts after one document lookup for each of them
Missed(cache, ids) == ids \ DOMAIN cache

Tally(counts, collection, ids) ==
    [k \in (DOMAIN counts) \cup {<<collection, x>> : x \in ids} |->
        IF k[1] = collection /\ k[2] \in ids THEN Get(counts, k, 0) + 1
        ELSE counts[k]]

\* variant: only a document that was found is cached
CacheMetadata_FoundOnly(cache, ids) ==
    [x \in (DOMAIN cache) \cup {y \in ids : FetchExerciseMetadata(y) # default_metadata} |->
        get_exercise_metadata(cache, x)]

\* the cache after get_exercise_metadata / get_user_bodyweight for these ids
CacheMetadata(cache, ids) ==
    [x \in (DOMAIN cache) \cup ids |-> get_exercise_metadata(cache, x)]

CacheBodyweight(cache, ids) ==
    [x \in (DOMAIN cache) \cup ids |-> get_user_bodyweight(cache, x)]

\* a set of the entry reaches the bodyweight lookup of lines 499-502 / 562-565
EntryNeedsBodyweight(exercise, metadata) ==
    /\ metadata.exerciseType \in {"Bodyweight", "Bodyweight Loadable"}
    /\ IF HasSetsList(exercise)
       THEN \E i \in DOMAIN exercise.sets : SetCounts(exercise.sets[i].reps)
       ELSE \E i \in 1..HandledSets(exercise) :
               exercise.completed[i] /\ SetCounts(IntOrZero(exercise.reps[i]))

\* all_users_analytics with the user's entry made by lines 442-446
EnsureUser(analytics, user_id) ==
    IF user_id \in DOMAIN analytics THEN analytics
    ELSE Put(analytics, user_id,
             [exercise_analytics |-> EmptyMap, monthly_analytics |-> EmptyMap])

\* history: what one workout's entry adds to the totals of its accumulator
Contribution(r) ==
    [workout_volume |-> r.w.workout_volume,
     workout_total_sets |-> r.w.workout_total_sets,
     workout_total_reps |-> r.w.workout_total_reps,
     workout_effective_reps |-> r.workout_effective_reps,
     intensity_distribution |-> r.w.intensity_distribution]

\* history: the load a set of reps > 0 moves, by exercise type
LoadOf(exerciseType, bodyweight, weight) ==
    CASE exerciseType = "Bodyweight" -> bodyweight
      [] exerciseType = "Bodyweight Loadable" -> bodyweight + weight
      [] OTHER -> weight

\* history: the sets of an entry that have reps > 0 (and, in the legacy shape,
\* are completed), each as <<effective weight, reps>>, stated from the data shapes
CountedSets(exercise, metadata, bodyweight) ==
    LET eff(weight) == LoadOf(metadata.exerciseType, bodyweight, weight)
    IN  IF exercise.hasSets
        THEN {<<eff(exercise.sets[i].weight), exercise.sets[i].reps>> :
                 i \in {j \in DOMAIN exercise.sets : exercise.sets[j].reps > 0}}
        ELSE {<<eff(IntOrZero(exercise.weights[i])), IntOrZero(exercise.reps[i])>> :
                 i \in {j \in DOMAIN exercise.reps :
                           /\ j \in DOMAIN exercise.weights
                           /\ j \in DOMAIN exercise.completed
                           /\ exercise.completed[j]
                           /\ IntOrZero(exercise.reps[j]) > 0}}

\* history: the rep-range label of a rep count, from the table of the data model
LabelOf(reps) ==
    CASE reps = 1 -> "1RM"
      [] reps \in 2..3 -> "3RM"
      [] reps \in 4..5 -> "5RM"
      [] reps \in 6..8 -> "8RM"
      [] reps \in 9..12 -> "12RM"
      [] OTHER -> "15RM"

\* history: best_sets after the counted sets of an entry were processed
NoteSets(best, user_id, exercise, ctx) ==
    LET counted == CountedSets(exercise, ctx.metadata, ctx.bodyweight)
        labels == {LabelOf(s[2]) : s \in counted}
        top(rr) == CHOOSE m \in {s[1] * (30 + s[2]) : s \in {x \in counted : LabelOf(x[2]) = rr}} :
                      \A s \in {x \in counted : LabelOf(x[2]) = rr} : s[1] * (30 + s[2]) <= m
        key(rr) == <<user_id, exercise.exerciseId, rr>>
    IN  [k \in (DOMAIN best) \cup {key(rr) : rr \in labels} |->
            IF k[1] = user_id /\ k[2] = exercise.exerciseId /\ k[3] \in labels
            THEN Max2(Get(best, k, top(k[3])), top(k[3]))
            ELSE best[k]]

\* one iteration of 'for exercise in exercises' (lines 454-683)
ProcessExercise ==
    /\ pc = "compute"
    /\ ~SkipsLog(CurrentLog)
    /\ exercise_idx < Len(CurrentLog.exercises)
    /\ LET user_id == CurrentUser
           workout_date == EffectiveDate(CurrentLog)
           exercise == CurrentLog.exercises[exercise_idx + 1]
           exercise_id == exercise.exerciseId
           analytics == EnsureUser(all_users_analytics, user_id)
           exercise_analytics == analytics[user_id].exercise_analytics
           metadata == get_exercise_metadata(exercise_metadata_cache, exercise_id)
           cache1 == CacheMetadata(exercise_metadata_cache, {exercise_id})
           current_e1rm == IF exercise_id \in DOMAIN exercise_analytics
                           THEN exercise_analytics[exercise_id].e1RM ELSE 0
           bodyweight == get_user_bodyweight(user_bodyweight_cache, user_id)
           ctx == [metadata |-> metadata, bodyweight |-> bodyweight,
                   current_e1rm |-> current_e1rm, workout_date |-> workout_date]
           recent_workouts == RecentWorkouts(user_workouts[user_id])
           staleness_score == calculate_staleness_score(exercise_id, user_id,
                                  workout_date, recent_workouts, cache1)
           plateau_data == detect_plateau(exercise_id, user_id, recent_workouts,
                                          metadata, bodyweight)
           lookups1 == Tally(lookups, "exercises",
                             Missed(exercise_metadata_cache, {exercise_id}))
       IN  /\ exercise_idx' = exercise_idx + 1
           /\ analytics_order' = IF user_id \in DOMAIN all_users_analytics
                                 THEN analytics_order
                                 ELSE Append(analytics_order, user_id)
           /\ IF SkipsEntry(exercise) \/ EntryRaises(exercise)
              THEN /\ all_users_analytics' = analytics
                   /\ exercise_metadata_cache' = cache1
                   /\ user_bodyweight_cache' =
                          IF EntryNeedsBodyweight(exercise, metadata)
                          THEN CacheBodyweight(user_bodyweight_cache, {user_id})
                          ELSE user_bodyweight_cache
                   /\ lookups' =
                          Tally(lookups1, "users",
                                IF EntryNeedsBodyweight(exercise, metadata)
                                THEN Missed(user_bodyweight_cache, {user_id}) ELSE {})
                   /\ UNCHANGED <<totals, merged_e1rms, best_sets, merged_entries>>
                   /\ last_entry' = [kind |-> IF SkipsEntry(exercise) THEN "skipped"
                                              ELSE "raised",
                                     user |-> user_id,
                                     exercise |-> exercise, ctx |-> ctx,
                                     before |-> exercise_analytics,
                                     after |-> exercise_analytics,
                                     totals_before |-> totals,
                                     totals_after |-> totals]
              ELSE \E r \in {EntryResult(exercise, ctx)} :
                   \E merged \in {MergeExercise(exercise_analytics, exercise_id, metadata,
                                                r, staleness_score, plateau_data)} :
                   \E added \in {AddToLogTotals(totals, metadata, r)} :
                   /\ all_users_analytics' =
                          [analytics EXCEPT ![user_id].exercise_analytics = merged]
                   /\ exercise_metadata_cache' =
                          CacheMetadata(cache1,
                              StalenessLookups(exercise_id, workout_date,
                                               recent_workouts, 1, cache1))
                   /\ user_bodyweight_cache' =
                          IF \/ EntryNeedsBodyweight(exercise, metadata)
                             \/ PlateauNeedsBodyweight(exercise_id, recent_workouts, metadata)
                          THEN CacheBodyweight(user_bodyweight_cache, {user_id})
                          ELSE user_bodyweight_cache
                   /\ lookups' =
                          Tally(Tally(lookups1, "exercises",
                                      Missed(cache1,
                                             StalenessLookups(exercise_id, workout_date,
                                                              recent_workouts, 1, cache1))),
                                "users",
                                IF \/ EntryNeedsBodyweight(exercise, metadata)
                                   \/ PlateauNeedsBodyweight(exercise_id, recent_workouts,
                                                             metadata)
                                THEN Missed(user_bodyweight_cache, {user_id}) ELSE {})
                   /\ totals' = added
                   /\ merged_e1rms' =
                          Put(merged_e1rms, <<user_id, exercise_id>>,
                              Get(merged_e1rms, <<user_id, exercise_id>>, {})
                                  \cup {r.w.workout_e1rm})
                   /\ best_sets' = NoteSets(best_sets, user_id, exercise, ctx)
                   /\ merged_entries' =
                          Put(merged_entries, <<user_id, exercise_id>>,
                              Append(Get(merged_entries, <<user_id, exercise_id>>, <<>>),
                                     Contribution(r)))
                   /\ last_entry' = [kind |-> "merged", user |-> user_id,
                                     exercise |-> exercise, ctx |-> ctx, result |-> r,
                                     recent_workouts |-> recent_workouts,
                                     before |-> exercise_analytics,
                                     after |-> merged,
                                     totals_before |-> totals,
                                     totals_after |-> added]
    /\ UNCHANGED <<logs, outages, batches, store, pc, run, user_order, user_workouts, user_idx, log_idx,
                   write_idx, failed_commits, raised, written, ret>>

\* section 4 of the log, then on to the next log (lines 685-715)
FinishLog ==
    /\ pc = "compute"
    /\ ~SkipsLog(CurrentLog)
    /\ exercise_idx = Len(CurrentLog.exercises)
    /\ ~IsTextDate(EffectiveDate(CurrentLog))
    /\ LET user_id == CurrentUser
           month_str == MonthStr(EffectiveDate(CurrentLog))
           muscle_balance == calculate_muscle_balance(store.exerciseAnalytics, user_id)
       IN  all_users_analytics' =
               [all_users_analytics EXCEPT ![user_id].monthly_analytics =
                   MergeMonthly(@, month_str, totals, muscle_balance)]
    /\ NextLog
    /\ UNCHANGED <<logs, merged_entries, outages, lookups, batches, store, run, user_order, user_workouts, analytics_order,
                   user_bodyweight_cache, exercise_metadata_cache, write_idx,
                   failed_commits, raised, merged_e1rms, best_sets, written,
                   last_entry, ret>>

\* workout_date.strftime (line 686) on a str raises AttributeError outside the
\* try of the exercise loop: line 719 prints and returns
FinishLogRaises ==
    /\ pc = "compute"
    /\ ~SkipsLog(CurrentLog)
    /\ exercise_idx = Len(CurrentLog.exercises)
    /\ IsTextDate(EffectiveDate(CurrentLog))
    /\ pc' = "aborted"
    /\ raised' = "AttributeError"
    /\ UNCHANGED <<logs, merged_entries, outages, lookups, batches, store, run, user_order, user_workouts, all_users_analytics,
                   analytics_order, user_bodyweight_cache, exercise_metadata_cache,
                   user_idx, log_idx, exercise_idx, totals, write_idx, failed_commits,
                   merged_e1rms, best_sets, written, last_entry, ret>>

\* ------------------------------------------------------------------------
\* Third pass: one batch per user (lines 727-767)
\* ------------------------------------------------------------------------
\* the documents one user's batch sets; the write timestamp is the run's number
ExerciseDocsOf(user_id, user_data, stamp) ==
    [k \in {<<user_id, e>> : e \in DOMAIN user_data.exercise_analytics} |->
        LET exercise_data == user_data.exercise_analytics[k[2]]
        IN  [lastUpdated |-> stamp]
            @@ [exercise_data EXCEPT !.averageIntensity =
                    AverageIntensity(exercise_data.totalVolume, exercise_data.totalReps)]]

PrHistoryDocsOf(user_id, user_data, stamp) ==
    [k \in {<<user_id, e, rr>> : e \in DOMAIN user_data.exercise_analytics,
                                 rr \in {"1RM", "3RM", "5RM", "8RM", "12RM", "15RM"}}
           \cap {<<user_id, e, rr>> : e \in DOMAIN user_data.exercise_analytics,
                     rr \in UNION {DOMAIN user_data.exercise_analytics[x].prsByRepRange :
                                      x \in DOMAIN user_data.exercise_analytics}} |->
        LET exercise_data == user_data.exercise_analytics[k[2]]
            pr_data == Get(exercise_data.prsByRepRange, k[3], [none |-> TRUE])
        IN  IF k[3] \in DOMAIN exercise_data.prsByRepRange
            THEN [repRange |-> k[3], e1RM |-> pr_data.e1RM, weight |-> pr_data.weight,
                  reps |-> pr_data.reps, achievedDate |-> pr_data.date,
                  exerciseName |-> exercise_data.exerciseName, lastUpdated |-> stamp]
            ELSE [none |-> TRUE]]

MonthlyDocsOf(user_id, user_data, stamp) ==
    [k \in {<<user_id, m>> : m \in DOMAIN user_data.monthly_analytics} |->
        [lastUpdated |-> stamp] @@ user_data.monthly_analytics[k[2]]]

\* the documents without their write timestamp
WithoutStamp(docs) ==
    [k \in DOMAIN docs |-> [f \in (DOMAIN docs[k]) \ {"lastUpdated"} |-> docs[k][f]]]

RunWrites(w, r) ==
    Get(w, r, [exerciseAnalytics |-> EmptyMap, monthlyAnalytics |-> EmptyMap])

\* history: the batch of lines 728-761 for one user, the document paths its
\* set() calls name, and whether its commit() returned
BatchOf(user_id, user_data, committed) ==
    [user_id |-> user_id, committed |-> committed,
     exerciseAnalytics |-> DOMAIN ExerciseDocsOf(user_id, user_data, run),
     prHistory |-> DOMAIN PrHistoryDocsOf(user_id, user_data, run),
     monthlyAnalytics |-> DOMAIN MonthlyDocsOf(user_id, user_data, run)]

\* variant: the write loop ends after its first batch
AfterWrite_LoopEnds == "done"

\* pc after the write loop handled the user at write_idx
AfterWrite == IF write_idx < Len(analytics_order) THEN "write" ELSE "done"

\* batch.commit() succeeds: the batch's documents replace the stored ones
WriteUser ==
    /\ pc = "write"
    /\ write_idx <= Len(analytics_order)
    /\ LET user_id == analytics_order[write_idx]
           user_data == all_users_analytics[user_id]
           ex == ExerciseDocsOf(user_id, user_data, run)
           pr == PrHistoryDocsOf(user_id, user_data, run)
           mo == MonthlyDocsOf(user_id, user_data, run)
       IN  /\ store' = [exerciseAnalytics |-> ex @@ store.exerciseAnalytics,
                        prHistory |-> pr @@ store.prHistory,
                        monthlyAnalytics |-> mo @@ store.monthlyAnalytics]
           /\ written' = Put(written, run,
                  [exerciseAnalytics |->
                       WithoutStamp(ex) @@ RunWrites(written, run).exerciseAnalytics,
                   monthlyAnalytics |->
                       WithoutStamp(mo) @@ RunWrites(written, run).monthlyAnalytics])
    /\ batches' = Append(batches, BatchOf(analytics_order[write_idx],
                              all_users_analytics[analytics_order[write_idx]], TRUE))
    /\ write_idx' = write_idx + 1
    /\ pc' = AfterWrite
    /\ UNCHANGED <<logs, merged_entries, outages, lookups, run, user_order, user_workouts, all_users_analytics,
                   analytics_order, user_bodyweight_cache, exercise_metadata_cache,
                   user_idx, log_idx, exercise_idx, totals, failed_commits, raised,
                   merged_e1rms, best_sets, last_entry, ret>>

\* batch.commit() raises: line 767 prints, the loop goes on with the next user
WriteUserCommitFails ==
    /\ pc = "write"
    /\ write_idx <= Len(analytics_order)
    /\ failed_commits' = failed_commits \cup {analytics_order[write_idx]}
    /\ batches' = Append(batches, BatchOf(analytics_order[write_idx],
                              all_users_analytics[analytics_order[write_idx]], FALSE))
    /\ write_idx' = write_idx + 1
    /\ pc' = AfterWrite
    /\ UNCHANGED <<logs, merged_entries, outages, lookups, store, run, user_order, user_workouts, all_users_analytics,
                   analytics_order, user_bodyweight_cache, exercise_metadata_cache,
                   user_idx, log_idx, exercise_idx, totals, raised, merged_e1rms,
                   best_sets, written, last_entry, ret>>

\* the script is executed again over the same logs; a rerun is explored after a
\* run that committed every batch
RunAgain ==
    /\ pc = "done"
    /\ run < MaxRuns
    /\ failed_commits = {}
    /\ run' = run + 1
    /\ pc' = "fetch"
    /\ user_order' = <<>>
    /\ user_workouts' = EmptyMap
    /\ all_users_analytics' = EmptyMap
    /\ analytics_order' = <<>>
    /\ user_bodyweight_cache' = EmptyMap
    /\ exercise_metadata_cache' = EmptyMap
    /\ user_idx' = 1
    /\ log_idx' = 1
    /\ exercise_idx' = 0
    /\ totals' = LogTotals
    /\ write_idx' = 1
    /\ failed_commits' = {}
    /\ raised' = ""
    /\ merged_e1rms' = EmptyMap
    /\ best_sets' = EmptyMap
    /\ last_entry' = [kind |-> "none"]
    /\ merged_entries' = EmptyMap
    /\ lookups' = EmptyMap
    /\ batches' = <<>>
    /\ UNCHANGED <<logs, outages, store, written, ret>>

Next ==
    \/ FetchLogs
    \/ FetchLogsSortRaises
    \/ FetchLogsFails
    \/ SkipLog
    \/ ProcessExercise
    \/ FinishLog
    \/ FinishLogRaises
    \/ WriteUser
    \/ WriteUserCommitFails
    \/ RunAgain

Spec == Init /\ [][Next]_vars

\* ------------------------------------------------------------------------
\* Specification of one exercise entry: a single log of user u1 holding one
\* entry drawn from a wide domain of sets, alone or after an entry of the same
\* exercise that leaves an accumulator with an e1RM
\* ------------------------------------------------------------------------
SetValues ==
    {Set(100, 5), Set(20, 8), Set(205, 10), Set(200, 11), Set(100, 0), Set(20, -1),
     Set(0, 5)}

SetLists == UNION {[1..n -> SetValues] : n \in 0..MaxSets}

\* the legacy shape holding the same sets; completed is all true, or false at
\* the first index only
LegacyOf(id, sets, first_completed) ==
    LegacyEntry(id,
                [i \in DOMAIN sets |-> Whole(sets[i].reps)],
                [i \in DOMAIN sets |-> Whole(sets[i].weight)],
                [i \in DOMAIN sets |-> i > 1 \/ first_completed])

EntryDomain(id) ==
    {SetsEntry(id, sets) : sets \in SetLists}
    \cup {LegacyOf(id, sets, TRUE) : sets \in SetLists}
    \cup {LegacyOf(id, sets, FALSE) : sets \in SetLists \ {<<>>}}

InitEntry ==
    /\ \E id \in {"bench", "pushup", "pullup"} :
       \E before \in {<<>>, <<SetsEntry(id, <<Set(100, 5)>>)>>} :
       \E exercise \in EntryDomain(id) :
           logs = <<Log("u1", EarlyDay, NoDate, Append(before, exercise))>>
    /\ store = EmptyStore
    /\ outages = {}
    /\ run = 1
    /\ written = EmptyMap
    /\ ret = [kind |-> "none"]
    /\ Fresh

NextEntry ==
    \/ FetchLogs
    \/ ProcessExercise
    \/ FinishLog

SpecEntry == InitEntry /\ [][NextEntry]_vars

\* ------------------------------------------------------------------------
\* Specification of a long history: one user with more logs than the recent
\* window holds, of distinct days, arriving in a scrambled order; the day is in
\* completedDate for even stream positions and in date for odd ones
\* ------------------------------------------------------------------------
\* position i of a stream of n logs scrambled with step 5 and offset shift
ScrambledDay(i, n, shift) == EarlyDay + ((5 * i + shift) % n)

LongStream(n, shift, ids) ==
    [i \in 1..n |->
        Log("u1",
            IF i % 2 = 0 THEN ScrambledDay(i, n, shift) ELSE NoDate,
            IF i % 2 = 0 THEN NoDate ELSE ScrambledDay(i, n, shift),
            <<SetsEntry(ids[1 + (i % Len(ids))], <<Set(100, 5)>>)>>)]

InitLong ==
    /\ \E n \in (RecentWindow + 1)..LongLogs :
       \E shift \in 0..2 :
       \E ids \in {<<"bench">>, <<"bench", "pushup">>, <<"pullup", "bench", "bench">>} :
           logs = LongStream(n, shift, ids)
    /\ store = EmptyStore
    /\ outages = {}
    /\ run = 1
    /\ written = EmptyMap
    /\ ret = [kind |-> "none"]
    /\ Fresh

NextLong ==
    \/ FetchLogs
    \/ ProcessExercise
    \/ FinishLog

SpecLong == InitLong /\ [][NextLong]_vars

\* ------------------------------------------------------------------------
\* Specification of the resolvers: logs naming an exercise without a document
\* ("dips") and a user without a profile (u2), exercises listed twice, and any
\* of the lookups raising
\* ------------------------------------------------------------------------
ResolverPool ==
    { Log("u1", LateDay, NoDate,
          <<SetsEntry("pushup", <<Set(20, 8)>>), SetsEntry("pushup", <<Set(20, 8)>>)>>),
      Log("u2", EarlyDay, NoDate,
          <<SetsEntry("dips", <<Set(20, 8)>>), SetsEntry("pushup", <<Set(20, 8)>>),
            SetsEntry("dips", <<Set(20, 8)>>)>>),
      Log("u1", EarlyDay, NoDate,
          <<SetsEntry("bench", <<Set(100, 5)>>)>>) }

InitResolver ==
    /\ logs \in UNION {[1..n -> ResolverPool] : n \in 0..MaxLogs}
    /\ outages \in SUBSET {"bench", "pushup", "dips", "u1"}
    /\ store = EmptyStore
    /\ run = 1
    /\ written = EmptyMap
    /\ ret = [kind |-> "none"]
    /\ Fresh

NextResolver ==
    \/ FetchLogs
    \/ ProcessExercise
    \/ FinishLog

SpecResolver == InitResolver /\ [][NextResolver]_vars

\* ------------------------------------------------------------------------
\* Specification of detect_plateau called on a recent-history window: the
\* window is a user's logs, newest first, of distinct dates; a workout may list
\* an exercise more than once
\* ------------------------------------------------------------------------
WindowPool ==
    { <<SetsEntry("bench", <<Set(100, 5)>>)>>,
      <<SetsEntry("bench", <<Set(100, 8)>>), SetsEntry("pushup", <<Set(20, 8)>>)>>,
      <<SetsEntry("bench", <<Set(100, 0)>>)>>,
      <<SetsEntry("pushup", <<Set(20, 8)>>)>>,
      <<SetsEntry("bench", <<Set(100, 0)>>), SetsEntry("bench", <<Set(100, 5)>>)>>,
      <<LegacyEntry("bench", <<Whole(5), Whole(5)>>, <<Whole(100), Halves(207)>>,
                    <<FALSE, TRUE>>),
        LegacyEntry("pushup", <<Whole(8)>>, <<Whole(20)>>, <<FALSE>>)>> }

WindowOf(user_id, lists) ==
    [i \in DOMAIN lists |->
        Log(user_id, EarlyDay + (Len(lists) - i), NoDate, lists[i])]

InitPlateau ==
    /\ \E user_id \in {"u1", "u2"} :
       \E exercise_id \in {"bench", "pushup"} :
       \E lists \in UNION {[1..n -> WindowPool] : n \in 0..MaxWindow} :
           /\ logs = WindowOf(user_id, lists)
           /\ user_order = <<user_id>>
           /\ user_workouts = Put(EmptyMap, user_id, WindowOf(user_id, lists))
           /\ ret = [kind |-> "call", exercise_id |-> exercise_id, user_id |-> user_id]
    /\ pc = "detect_plateau"
    /\ store = EmptyStore
    /\ outages = {}
    /\ run = 1
    /\ written = EmptyMap
    /\ all_users_analytics = EmptyMap
    /\ analytics_order = <<>>
    /\ user_bodyweight_cache = EmptyMap
    /\ exercise_metadata_cache = EmptyMap
    /\ user_idx = 1
    /\ log_idx = 1
    /\ exercise_idx = 0
    /\ totals = LogTotals
    /\ write_idx = 1
    /\ failed_commits = {}
    /\ raised = ""
    /\ merged_e1rms = EmptyMap
    /\ best_sets = EmptyMap
    /\ last_entry = [kind |-> "none"]
    /\ merged_entries = EmptyMap
    /\ lookups = EmptyMap
    /\ batches = <<>>

\* detect_plateau(exercise_id, user_id, user_workouts[user_id][:20]) returns
DetectPlateau ==
    /\ pc = "detect_plateau"
    /\ LET recent_workouts == RecentWorkouts(user_workouts[ret.user_id])
           metadata == get_exercise_metadata(exercise_metadata_cache, ret.exercise_id)
           bodyweight == get_user_bodyweight(user_bodyweight_cache, ret.user_id)
       IN  /\ ret' = [kind |-> "plateau", exercise_id |-> ret.exercise_id,
                      user_id |-> ret.user_id,
                      value |-> detect_plateau(ret.exercise_id, ret.user_id,
                                               recent_workouts, metadata, bodyweight)]
           /\ exercise_metadata_cache' =
                  IF \E n \in DOMAIN recent_workouts :
                        HasExercise(recent_workouts[n], ret.exercise_id)
                  THEN CacheMetadata(exercise_metadata_cache, {ret.exercise_id})
                  ELSE exercise_metadata_cache
           /\ user_bodyweight_cache' =
                  IF PlateauNeedsBodyweight(ret.exercise_id, recent_workouts, metadata)
                  THEN CacheBodyweight(user_bodyweight_cache, {ret.user_id})
                  ELSE user_bodyweight_cache
           /\ lookups' =
                  Tally(Tally(lookups, "exercises",
                              IF \E n \in DOMAIN recent_workouts :
                                    HasExercise(recent_workouts[n], ret.exercise_id)
                              THEN Missed(exercise_metadata_cache, {ret.exercise_id})
                              ELSE {}),
                        "users",
                        IF PlateauNeedsBodyweight(ret.exercise_id, recent_workouts, metadata)
                        THEN Missed(user_bodyweight_cache, {ret.user_id}) ELSE {})
    /\ pc' = "returned"
    /\ UNCHANGED <<logs, merged_entries, outages, batches, store, run, user_order, user_workouts, all_users_analytics,
                   analytics_order, user_idx, log_idx, exercise_idx, totals, write_idx,
                   failed_commits, raised, merged_e1rms, best_sets, written, last_entry>>

NextPlateau == DetectPlateau

SpecPlateau == InitPlateau /\ [][NextPlateau]_vars


\* ------------------------------------------------------------------------
\* Properties
\* ------------------------------------------------------------------------
Accumulators ==
    {<<u, e>> : u \in DOMAIN all_users_analytics, e \in {"bench", "pushup", "pullup"}}
    \cap {k \in (DOMAIN all_users_analytics) \X {"bench", "pushup", "pullup"} :
             k[2] \in DOMAIN all_users_analytics[k[1]].exercise_analytics}

Accumulator(k) == all_users_analytics[k[1]].exercise_analytics[k[2]]

\* number of set positions the loop of an entry visits, and the loop after n
EntryLen(exercise) ==
    IF HasSetsList(exercise) THEN Len(exercise.sets) ELSE NumSets(exercise)

FoldAt(exercise, n, ctx) ==
    IF HasSetsList(exercise) THEN SetsLoop(exercise, n, ctx)
    ELSE LegacyLoop(exercise, n, ctx)

\* the reps, weight and completion the loop reads at position n
RawReps(exercise, n) ==
    IF exercise.hasSets THEN exercise.sets[n].reps ELSE IntOrZero(exercise.reps[n])

RawWeight(exercise, n) ==
    IF exercise.hasSets THEN exercise.sets[n].weight
    ELSE IntOrZero(exercise.weights[n])

RawCompleted(exercise, n) == exercise.hasSets \/ exercise.completed[n]

\* C1: every stalenessScore an exercise accumulator holds, after any sequence
\* of log merges, lies in [0, 100]
C1_StalenessInRange ==
    \A k \in Accumulators : Accumulator(k).stalenessScore \in 0..100

\* C2: for every user, exercise and rep-range label, the retained PR record is
\* that of a set whose e1RM is at least the e1RM of every processed set of the
\* label
C2_PrIsMaximum ==
    \A k \in DOMAIN best_sets :
        /\ <<k[1], k[2]>> \in Accumulators
        /\ k[3] \in DOMAIN Accumulator(<<k[1], k[2]>>).prsByRepRange
        /\ LET pr == Accumulator(<<k[1], k[2]>>).prsByRepRange[k[3]]
           IN  pr.weight * (30 + pr.reps) >= best_sets[k]

\* C3: a set with reps > 0 whose e1RM equals the e1RM of the set that produced
\* the PR of its label leaves that PR record unchanged, inside a workout and
\* when the workout is merged into the accumulator
C3_TieKeepsRecord ==
    last_entry.kind = "merged" =>
        /\ \A n \in 1..EntryLen(last_entry.exercise) :
              LET before == FoldAt(last_entry.exercise, n - 1, last_entry.ctx).prs_by_rep_range
                  after == FoldAt(last_entry.exercise, n, last_entry.ctx).prs_by_rep_range
                  reps == RawReps(last_entry.exercise, n)
                  eff == EffectiveWeight(last_entry.ctx.metadata, last_entry.ctx.bodyweight,
                                         RawWeight(last_entry.exercise, n))
                  rr == LabelOf(reps)
              IN  (/\ RawCompleted(last_entry.exercise, n)
                   /\ reps > 0
                   /\ rr \in DOMAIN before
                   /\ before[rr].weight * (30 + before[rr].reps) = eff * (30 + reps))
                  => after[rr] = before[rr]
        /\ LET id == last_entry.exercise.exerciseId
               new == last_entry.result.w.prs_by_rep_range
           IN  id \in DOMAIN last_entry.before =>
                   \A rr \in DOMAIN new :
                       LET old == last_entry.before[id].prsByRepRange
                       IN  (/\ rr \in DOMAIN old
                            /\ old[rr].weight * (30 + old[rr].reps)
                                   = new[rr].weight * (30 + new[rr].reps))
                           => last_entry.after[id].prsByRepRange[rr] = old[rr]


SetMax(S) == CHOOSE m \in S : \A x \in S : x <= m

\* C4: the e1RM of every accumulator equals the maximum workout-level e1RM of
\* the workouts merged into it, and no merge of a run lowers it
C4_E1rmRunningMaximum ==
    /\ [](\A k \in DOMAIN merged_e1rms :
             /\ k \in Accumulators
             /\ Accumulator(k).e1RM = SetMax(merged_e1rms[k]))
    /\ [][\A k \in Accumulators :
             (/\ k[1] \in DOMAIN all_users_analytics'
              /\ k[2] \in DOMAIN all_users_analytics'[k[1]].exercise_analytics)
             => all_users_analytics'[k[1]].exercise_analytics[k[2]].e1RM
                    >= Accumulator(k).e1RM]_vars

\* a workout with a positive e1RM below the accumulator's was merged
C4_LowerWorkoutMerged ==
    /\ last_entry.kind = "merged"
    /\ last_entry.exercise.exerciseId \in DOMAIN last_entry.before
    /\ last_entry.result.w.workout_e1rm > 0
    /\ last_entry.result.w.workout_e1rm
           < last_entry.before[last_entry.exercise.exerciseId].e1RM
    /\ last_entry.after[last_entry.exercise.exerciseId].e1RM
           = last_entry.before[last_entry.exercise.exerciseId].e1RM

\* C5: a set with reps <= 0, in either entry shape, leaves the volume, the
\* reps, the workout e1RM, the intensity distribution and the PR table of its
\* exercise as they were before the set
C5_NonPositiveRepsInert ==
    last_entry.kind = "merged" =>
        /\ FoldAt(last_entry.exercise, EntryLen(last_entry.exercise), last_entry.ctx)
               = last_entry.result.w
        /\ \A n \in 1..EntryLen(last_entry.exercise) :
            RawReps(last_entry.exercise, n) <= 0 =>
                LET before == FoldAt(last_entry.exercise, n - 1, last_entry.ctx)
                    after == FoldAt(last_entry.exercise, n, last_entry.ctx)
                IN  /\ after.workout_volume = before.workout_volume
                    /\ after.workout_total_reps = before.workout_total_reps
                    /\ after.workout_e1rm = before.workout_e1rm
                    /\ after.intensity_distribution = before.intensity_distribution
                    /\ after.prs_by_rep_range = before.prs_by_rep_range

\* a completed legacy set of zero reps and positive weight was processed next
\* to a counted set, for an exercise that already had an e1RM
C5_ZeroRepsSetProcessed ==
    /\ last_entry.kind = "merged"
    /\ ~last_entry.exercise.hasSets
    /\ last_entry.ctx.current_e1rm > 0
    /\ \E n \in 1..EntryLen(last_entry.exercise) :
          /\ RawReps(last_entry.exercise, n) = 0
          /\ RawWeight(last_entry.exercise, n) > 0
          /\ RawCompleted(last_entry.exercise, n)
    /\ last_entry.result.w.workout_total_reps > 0

\* C6: a second execution over the same logs writes exercise and monthly
\* records equal to those of the execution before it, lastUpdated aside
C6_RunIdempotent ==
    (run > 1 /\ pc = "done" /\ failed_commits = {}) =>
        RunWrites(written, run) = RunWrites(written, run - 1)


\* the workouts of a window that list the exercise with a set of positive e1RM
QualifyingWorkouts(window, exercise_id, user_id) ==
    LET metadata == FetchExerciseMetadata(exercise_id)
        bodyweight == FetchUserBodyweight(user_id)
    IN  {n \in DOMAIN window :
            \E i \in DOMAIN window[n].exercises :
                /\ window[n].exercises[i].exerciseId = exercise_id
                /\ \E x \in CountedSets(window[n].exercises[i], metadata, bodyweight) :
                       x[1] * (30 + x[2]) > 0}

\* C7: detect_plateau returns {isPlateaued: false, plateauDays: 0, trend:
\* "insufficient_data"} when fewer than 4 workouts of the window contain the
\* exercise with a best e1RM > 0, and never that trend when 4 or more do
C7_InsufficientDataBelowFour ==
    ret.kind = "plateau" =>
        LET q == Cardinality(QualifyingWorkouts(RecentWorkouts(logs), ret.exercise_id,
                                                ret.user_id))
        IN  /\ q < 4 => ret.value = [isPlateaued |-> FALSE, plateauDays |-> 0,
                                     trend |-> "insufficient_data"]
            /\ q >= 4 => ret.value.trend # "insufficient_data"

\* the sums a single workout of one exercise yields over positions 1..n
RECURSIVE ExpectedVolume(_, _, _, _)
ExpectedVolume(exercise, n, metadata, bodyweight) ==
    IF n = 0 THEN 0
    ELSE ExpectedVolume(exercise, n - 1, metadata, bodyweight)
         + (IF RawCompleted(exercise, n) /\ RawReps(exercise, n) > 0
            THEN LoadOf(metadata.exerciseType, bodyweight, RawWeight(exercise, n))
                     * RawReps(exercise, n)
            ELSE 0)

RECURSIVE ExpectedReps(_, _)
ExpectedReps(exercise, n) ==
    IF n = 0 THEN 0
    ELSE ExpectedReps(exercise, n - 1)
         + (IF RawCompleted(exercise, n) /\ RawReps(exercise, n) > 0
            THEN RawReps(exercise, n) ELSE 0)

\* C8: the effective weight of a set with reps > 0 is the bodyweight for type
\* Bodyweight, bodyweight + weight for Bodyweight Loadable, the weight otherwise;
\* the first workout of an exercise yields e1RM = max effectiveWeight*(1+reps/30),
\* totalVolume = sum of effectiveWeight*reps, totalReps = sum of reps and, per
\* label, a PR of rounded e1RM, effective weight and reps; 3 sets of 100x5 give
\* 1500, 15 and 5RM {117, 100, 5}; bodyweight 180 with set {20, 8} gives e1RM
\* 228 and volume 1440
C8_SingleWorkoutResults ==
    (/\ last_entry.kind = "merged"
     /\ last_entry.exercise.exerciseId \notin DOMAIN last_entry.before) =>
        LET exercise == last_entry.exercise
            metadata == last_entry.ctx.metadata
            bodyweight == last_entry.ctx.bodyweight
            counted == CountedSets(exercise, metadata, bodyweight)
            acc == last_entry.after[exercise.exerciseId]
        IN  /\ acc.e1RM = IF counted = {} THEN 0
                          ELSE SetMax({x[1] * (30 + x[2]) : x \in counted})
            /\ acc.totalVolume
                   = ExpectedVolume(exercise, EntryLen(exercise), metadata, bodyweight)
            /\ acc.totalReps = ExpectedReps(exercise, EntryLen(exercise))
            /\ DOMAIN acc.prsByRepRange = {LabelOf(x[2]) : x \in counted}
            /\ \A rr \in DOMAIN acc.prsByRepRange :
                   \E x \in counted :
                       /\ LabelOf(x[2]) = rr
                       /\ acc.prsByRepRange[rr].e1RM
                              = RoundHalfEven(x[1] * (30 + x[2]), 30)
                       /\ acc.prsByRepRange[rr].weight = x[1]
                       /\ acc.prsByRepRange[rr].reps = x[2]
            /\ exercise = SetsEntry("bench", <<Set(100, 5), Set(100, 5), Set(100, 5)>>) =>
                   /\ acc.totalVolume = 1500
                   /\ acc.totalReps = 15
                   /\ acc.prsByRepRange["5RM"].e1RM = 117
                   /\ acc.prsByRepRange["5RM"].weight = 100
                   /\ acc.prsByRepRange["5RM"].reps = 5
            /\ (exercise = SetsEntry("pushup", <<Set(20, 8)>>) /\ bodyweight = 180) =>
                   /\ acc.e1RM = 30 * 228
                   /\ acc.totalVolume = 1440

\* the first workout of the Bodyweight exercise, one set {20, 8}, was merged
\* for the user of bodyweight 180
C8_BodyweightWorkoutMerged ==
    /\ last_entry.kind = "merged"
    /\ last_entry.before = EmptyMap
    /\ last_entry.exercise = SetsEntry("pushup", <<Set(20, 8)>>)
    /\ last_entry.ctx.metadata.exerciseType = "Bodyweight"
    /\ last_entry.ctx.bodyweight = 180
    /\ last_entry.after["pushup"].prsByRepRange["8RM"].weight = 180

\* a finished log with a user and exercises and no date at all
DatelessLog(log) ==
    /\ log.userId # NoUser
    /\ Len(log.exercises) > 0
    /\ log.completedDate = NoDate
    /\ log.date = NoDate

\* a finished log with a user, exercises and a date
CompleteLog(log) ==
    /\ log.userId # NoUser
    /\ Len(log.exercises) > 0
    /\ (log.completedDate # NoDate \/ log.date # NoDate)

\* the entry records at least one set
HoldsSets(exercise) ==
    IF exercise.hasSets THEN Len(exercise.sets) > 0
    ELSE Len(exercise.reps) > 0 /\ Len(exercise.weights) > 0
         /\ Len(exercise.completed) > 0

\* C9: a log with a user and exercises and no date is skipped and nothing else
\* is affected: once the script has ended, every exercise entry with sets of
\* every other complete log has its record written
C9_DatelessLogOnlySkipped ==
    (/\ \E i \in DOMAIN logs : DatelessLog(logs[i])
     /\ pc \in {"done", "aborted"}
     /\ raised # "StorageError"
     /\ failed_commits = {}) =>
        \A i \in DOMAIN logs :
            CompleteLog(logs[i]) =>
                \A j \in DOMAIN logs[i].exercises :
                    HoldsSets(logs[i].exercises[j]) =>
                        <<logs[i].userId, logs[i].exercises[j].exerciseId>>
                            \in DOMAIN store.exerciseAnalytics

\* an empty sets list, or legacy arrays of which at least one is empty
EmptySetData(exercise) ==
    IF exercise.hasSets THEN Len(exercise.sets) = 0
    ELSE Len(exercise.reps) = 0 \/ Len(exercise.weights) = 0
         \/ Len(exercise.completed) = 0

\* C10: an exercise entry with empty set data, in either shape, creates no
\* accumulator, changes no field of an existing one and adds nothing to the
\* monthly contribution of its workout
C10_EmptyEntrySkipped ==
    (last_entry.kind # "none" /\ EmptySetData(last_entry.exercise)) =>
        /\ last_entry.after = last_entry.before
        /\ last_entry.totals_after = last_entry.totals_before

\* every document path a batch names lies under the user id
BatchPathsUnder(b, user_id) ==
    /\ \A k \in b.exerciseAnalytics : k[1] = user_id
    /\ \A k \in b.prHistory : k[1] = user_id
    /\ \A k \in b.monthlyAnalytics : k[1] = user_id

\* C11: a run that aborts in the read or compute pass issues no write; a
\* finished write pass made exactly one batch commit attempt for every user
\* holding accumulators, whether or not another user's commit failed; every
\* batch names paths of its own user only, and a failed commit stores nothing
C11_FailureIsolation ==
    /\ [](/\ pc = "aborted" => batches = <<>>
          /\ pc = "done" =>
                \A u \in DOMAIN all_users_analytics :
                    Cardinality({i \in DOMAIN batches : batches[i].user_id = u}) = 1
          /\ \A i \in DOMAIN batches :
                /\ batches[i].user_id \in DOMAIN all_users_analytics
                /\ BatchPathsUnder(batches[i], batches[i].user_id)
                /\ batches[i].exerciseAnalytics =
                       {<<batches[i].user_id, e>> :
                           e \in DOMAIN all_users_analytics[batches[i].user_id]
                                            .exercise_analytics})
    /\ [][/\ pc' = "aborted" => store' = store
          /\ (Len(batches') > Len(batches) /\ ~batches'[Len(batches')].committed)
                => store' = store
          /\ (Len(batches') > Len(batches) /\ batches'[Len(batches')].committed)
                => \A k \in batches'[Len(batches')].exerciseAnalytics :
                       k \in DOMAIN store'.exerciseAnalytics]_vars

\* a user's commit failed and a later user's batch was committed all the same
C11_CommitAfterFailedCommit ==
    /\ pc = "done"
    /\ \E i, j \in DOMAIN batches :
          /\ i < j
          /\ ~batches[i].committed
          /\ batches[j].committed
          /\ batches[j].exerciseAnalytics # {}

\* number of positions of a sequence holding x
Count(seq, x) == Cardinality({i \in DOMAIN seq : seq[i] = x})

\* C12: whenever calculate_staleness_score and detect_plateau were invoked for
\* an entry, the user's log list holds the user's logs sorted by effective date
\* (completedDate, else date), newest first, and the window passed is its first
\* min(20, n) logs: no log outside the window is more recent than one inside
C12_SortedBeforeDetection ==
    last_entry.kind = "merged" =>
        LET user_logs == user_workouts[last_entry.user]
            window == last_entry.recent_workouts
            n == Len(user_logs)
        IN  /\ \A i, j \in 1..n :
                  i < j => DayOf(EffectiveDate(user_logs[i]))
                               >= DayOf(EffectiveDate(user_logs[j]))
            /\ \A i \in DOMAIN logs :
                  logs[i].userId = last_entry.user =>
                      Count(user_logs, logs[i]) = Count(logs, logs[i])
            /\ n = Cardinality({i \in DOMAIN logs : logs[i].userId = last_entry.user})
            /\ Len(window) = Min2(RecentWindow, n)
            /\ \A i \in DOMAIN window : window[i] = user_logs[i]
            /\ \A i \in DOMAIN window : \A j \in (Len(window) + 1)..n :
                  DayOf(EffectiveDate(window[i])) >= DayOf(EffectiveDate(user_logs[j]))

\* the detectors were invoked for a user whose logs arrived unsorted and
\* outnumber the window
C12_WindowCutsLongHistory ==
    /\ last_entry.kind = "merged"
    /\ Len(user_workouts[last_entry.user]) > RecentWindow
    /\ Len(last_entry.recent_workouts) = RecentWindow
    /\ user_workouts[last_entry.user] # logs
    /\ \E i \in DOMAIN logs : logs[i].completedDate = NoDate

\* the accumulated fields two entry shapes are compared on
ShapeFields(ea) ==
    [e1RM |-> ea.e1RM, totalVolume |-> ea.totalVolume, totalReps |-> ea.totalReps,
     totalSets |-> ea.totalSets, totalEffectiveReps |-> ea.totalEffectiveReps,
     intensityDistribution |-> ea.intensityDistribution,
     prsByRepRange |-> ea.prsByRepRange]

\* exercise_analytics after one iteration of the exercise loop for the entry
AccumulatorsAfter(exercise, exercise_analytics, ctx, staleness_score, plateau_data) ==
    IF SkipsEntry(exercise) THEN exercise_analytics
    ELSE MergeExercise(exercise_analytics, exercise.exerciseId, ctx.metadata,
                       EntryResult(exercise, ctx), staleness_score, plateau_data)

\* C13: an entry in the current shape and the legacy entry holding the same
\* integer weights and reps in the same order, every set completed, give the
\* same e1RM, totalVolume, totalReps, totalSets, totalEffectiveReps,
\* intensityDistribution and prsByRepRange from the same prior accumulator
C13_ShapesAgree ==
    (last_entry.kind = "merged" /\ last_entry.exercise.hasSets) =>
        LET id == last_entry.exercise.exerciseId
            legacy == LegacyOf(id, last_entry.exercise.sets, TRUE)
            other == AccumulatorsAfter(legacy, last_entry.before, last_entry.ctx,
                                       last_entry.after[id].stalenessScore,
                                       last_entry.after[id].plateauData)
        IN  /\ id \in DOMAIN other
            /\ ShapeFields(other[id]) = ShapeFields(last_entry.after[id])

\* the points detect_plateau collected for a call on the user's window, oldest
\* first
PlateauPoints(exercise_id, user_id) ==
    LET window == RecentWorkouts(user_workouts[user_id])
        e1rm_history ==
            E1rmHistory(exercise_id, window, Len(window),
                        get_exercise_metadata(exercise_metadata_cache, exercise_id),
                        get_user_bodyweight(user_bodyweight_cache, user_id))
    IN  SortAsc(e1rm_history, Len(e1rm_history))

\* every one of the points is within 2% of the highest of them
WithinTwoPercent(points) ==
    \A i, j \in DOMAIN points : 100 * points[i].e1RM >= 98 * points[j].e1RM

\* C14: with at least 4 qualifying points, detect_plateau reports isPlateaued
\* exactly when each of the 4 most recent points has an e1RM within 2% of the
\* highest e1RM of those 4; a point more than 2% below gives not plateaued
C14_PlateauWithinTwoPercent ==
    ret.kind = "plateau" =>
        LET points == PlateauPoints(ret.exercise_id, ret.user_id)
            n == Len(points)
        IN  n >= 4 =>
                (ret.value.isPlateaued <=> WithinTwoPercent(SubSeq(points, n - 3, n)))

\* average e1RM per muscle group over the accumulators this run holds in memory
\* for the user, those with e1RM > 0
RunStrength(user_id) ==
    LET acc == all_users_analytics[user_id].exercise_analytics
        counted == {e \in DOMAIN acc : acc[e].muscleGroup # "" /\ acc[e].e1RM > 0}
        groups == {acc[e].muscleGroup : e \in counted}
        of(g) == {e \in counted : acc[e].muscleGroup = g}
    IN  [g \in groups |-> Frac(SumE1RM(acc, of(g)), 30 * Cardinality(of(g)))]

\* C15: the muscleBalance stored in the month's record when a log is finished
\* gives, per muscle group, the average e1RM of this run's accumulators of the
\* user as they stand after the log's exercises were merged
C15_BalanceFromRunAccumulators ==
    [][(/\ pc = "compute"
        /\ ~SkipsLog(CurrentLog)
        /\ exercise_idx = Len(CurrentLog.exercises)
        /\ pc' # "aborted")
          => all_users_analytics'[CurrentUser]
                 .monthly_analytics[MonthStr(EffectiveDate(CurrentLog))]
                 .muscleBalance.muscleGroupStrength = RunStrength(CurrentUser)]_vars

\* an id has no document, or its lookup raises
Unresolved(docs, id) == id \notin DOMAIN docs \/ id \in outages

\* C16: within one run every exercise id and user id is looked up at most
\* once, also when the record is missing or the lookup raises; a cached id was
\* looked up exactly once and its cached value is the default for a missing
\* record or a failed lookup; a cache entry is never changed or removed, so
\* every later resolver call returns what the first call returned
C16_ResolverMemoization ==
    /\ [](/\ \A k \in DOMAIN lookups : lookups[k] <= 1
          /\ \A id \in DOMAIN exercise_metadata_cache :
                /\ Get(lookups, <<"exercises", id>>, 0) = 1
                /\ Unresolved(ExerciseDocs, id)
                       => exercise_metadata_cache[id] = default_metadata
                /\ get_exercise_metadata(exercise_metadata_cache, id)
                       = exercise_metadata_cache[id]
          /\ \A id \in DOMAIN user_bodyweight_cache :
                /\ Get(lookups, <<"users", id>>, 0) = 1
                /\ Unresolved(UserDocs, id) => user_bodyweight_cache[id] = 0
                /\ get_user_bodyweight(user_bodyweight_cache, id)
                       = user_bodyweight_cache[id])
    /\ [][run' = run =>
            /\ \A id \in DOMAIN exercise_metadata_cache :
                  /\ id \in DOMAIN exercise_metadata_cache'
                  /\ exercise_metadata_cache'[id] = exercise_metadata_cache[id]
            /\ \A id \in DOMAIN user_bodyweight_cache :
                  /\ id \in DOMAIN user_bodyweight_cache'
                  /\ user_bodyweight_cache'[id] = user_bodyweight_cache[id]]_vars

\* an exercise without a document was resolved for a second entry of the same
\* workout, by a user without a profile whose bodyweight is cached, after an
\* exercise lookup and a profile lookup that raised were cached
C16_UnresolvedAskedAgain ==
    /\ last_entry.kind = "merged"
    /\ exercise_idx = 3
    /\ CurrentLog.exercises[1].exerciseId = "dips"
    /\ CurrentLog.exercises[3].exerciseId = "dips"
    /\ "dips" \notin outages
    /\ "dips" \in DOMAIN exercise_metadata_cache
    /\ CurrentUser \notin DOMAIN UserDocs
    /\ CurrentUser \in DOMAIN user_bodyweight_cache
    /\ \E id \in DOMAIN exercise_metadata_cache : id \in outages
    /\ \E u \in DOMAIN user_bodyweight_cache : u \in outages

\* sum of f over the first n elements of a sequence of contributions, f one of
\* the four totals
RECURSIVE SumOver(_, _, _)
SumOver(seq, n, field) ==
    IF n = 0 THEN 0 ELSE seq[n][field] + SumOver(seq, n - 1, field)

RECURSIVE SumBucket(_, _, _)
SumBucket(seq, n, bucket) ==
    IF n = 0 THEN 0
    ELSE Get(seq[n].intensity_distribution, bucket, 0) + SumBucket(seq, n - 1, bucket)

\* C17: after any sequence of merges into an accumulator its totalVolume,
\* totalSets, totalReps and totalEffectiveReps are the sums of the per-workout
\* contributions of the merged entries, every intensityDistribution bucket
\* holds the sum of the per-workout counts of the bucket, and averageIntensity
\* is totalVolume / totalReps, or 0 when totalReps is 0
C17_TotalsAreSums ==
    /\ DOMAIN merged_entries = Accumulators
    /\ \A k \in Accumulators :
          LET ea == Accumulator(k)
              merged == merged_entries[k]
              n == Len(merged)
          IN  /\ ea.totalVolume = SumOver(merged, n, "workout_volume")
              /\ ea.totalSets = SumOver(merged, n, "workout_total_sets")
              /\ ea.totalReps = SumOver(merged, n, "workout_total_reps")
              /\ ea.totalEffectiveReps = SumOver(merged, n, "workout_effective_reps")
              /\ \A b \in (DOMAIN ea.intensityDistribution)
                             \cup UNION {DOMAIN merged[i].intensity_distribution :
                                            i \in 1..n} :
                    Get(ea.intensityDistribution, b, 0) = SumBucket(merged, n, b)
              /\ ea.averageIntensity =
                     IF ea.totalReps > 0 THEN Frac(ea.totalVolume, ea.totalReps)
                     ELSE <<0, 1>>

\* three entries were merged into one accumulator, two of them with a set in
\* the same intensity bucket
C17_SeveralWorkoutsMerged ==
    \E k \in Accumulators :
        /\ Len(merged_entries[k]) >= 3
        /\ \E i, j \in DOMAIN merged_entries[k] :
              /\ i < j
              /\ \E b \in DOMAIN merged_entries[k][i].intensity_distribution :
                    b \in DOMAIN merged_entries[k][j].intensity_distribution
        /\ Accumulator(k).totalReps > 0

\* the list calculate_effective_reps receives for the entry (lines 536, 601)
EvaluatedSets(entry) ==
    IF HasSetsList(entry.exercise) THEN entry.exercise.sets
    ELSE entry.result.w.completed_sets

\* what set n adds to the sum of calculate_effective_reps, multiplied by 8
SetEffectiveReps(sets, n, e1rm) == EffectiveRepsSum(<<sets[n]>>, 1, e1rm)

RECURSIVE SumOfReps(_, _)
SumOfReps(sets, n) ==
    IF n = 0 THEN 0 ELSE sets[n].reps + SumOfReps(sets, n - 1)

RECURSIVE SumOfPositiveReps(_, _)
SumOfPositiveReps(sets, n) ==
    IF n = 0 THEN 0 ELSE Max2(0, sets[n].reps) + SumOfPositiveReps(sets, n - 1)

RemoveAt(seq, n) == SubSeq(seq, 1, n - 1) \o SubSeq(seq, n + 1, Len(seq))

\* the entry without its set at position n
WithoutSet(exercise, n) ==
    IF exercise.hasSets
    THEN [exercise EXCEPT !.sets = RemoveAt(@, n)]
    ELSE [exercise EXCEPT !.reps = RemoveAt(@, n), !.weights = RemoveAt(@, n),
                          !.completed = RemoveAt(@, n)]

\* C19: in either shape, an entry holding a set with reps <= 0 leaves the
\* accumulator in the same state, field by field, as the same entry with that
\* set removed
C19_NonPositiveSetRemovable ==
    last_entry.kind = "merged" =>
        \A n \in 1..EntryLen(last_entry.exercise) :
            RawReps(last_entry.exercise, n) <= 0 =>
                AccumulatorsAfter(WithoutSet(last_entry.exercise, n), last_entry.before,
                                  last_entry.ctx,
                                  last_entry.after[last_entry.exercise.exerciseId]
                                      .stalenessScore,
                                  last_entry.after[last_entry.exercise.exerciseId]
                                      .plateauData)
                    = last_entry.after

\* sum of the values of a dict of numbers
RECURSIVE SumValues(_, _)
SumValues(f, keys) ==
    IF keys = {} THEN 0
    ELSE LET k == CHOOSE x \in keys : TRUE
         IN  f[k] + SumValues(f, keys \ {k})

\* sum of one field over the records of a dict
RECURSIVE SumField(_, _, _)
SumField(f, keys, field) ==
    IF keys = {} THEN 0
    ELSE LET k == CHOOSE x \in keys : TRUE
         IN  f[k][field] + SumField(f, keys \ {k}, field)

\* the second pass went through every log and the script is in its write loop
\* or past it
ComputePassEnded == pc \in {"write", "done"}

\* C20: at the end of the compute pass, for every user, totalVolume summed over
\* the user's monthly records equals totalVolume summed over the user's
\* exercise accumulators, the muscleGroupVolume values of each monthly record
\* sum to its totalVolume, and totalWorkouts summed over the months is the
\* number of the user's logs that were not skipped; entries that were skipped
\* or raised change none of this
C20_VolumeConservation ==
    ComputePassEnded =>
        \A u \in DOMAIN user_workouts :
            LET processed == {i \in DOMAIN user_workouts[u] :
                                 ~SkipsLog(user_workouts[u][i])}
            IN  IF u \notin DOMAIN all_users_analytics THEN processed = {}
                ELSE LET monthly == all_users_analytics[u].monthly_analytics
                         acc == all_users_analytics[u].exercise_analytics
                     IN  /\ SumField(monthly, DOMAIN monthly, "totalVolume")
                                = SumField(acc, DOMAIN acc, "totalVolume")
                         /\ \A m \in DOMAIN monthly :
                                SumValues(monthly[m].muscleGroupVolume,
                                          DOMAIN monthly[m].muscleGroupVolume)
                                    = monthly[m].totalVolume
                         /\ SumField(monthly, DOMAIN monthly, "totalWorkouts")
                                = Cardinality(processed)

\* the compute pass ended for a user with a skipped log, a log holding an entry
\* that raised next to a skipped and a merged one, two logs in one month and
\* logs in two months
C20_SkippedAndRaisedEntries ==
    /\ ComputePassEnded
    /\ \E u \in DOMAIN all_users_analytics :
          LET user_logs == user_workouts[u]
              monthly == all_users_analytics[u].monthly_analytics
          IN  /\ \E i \in DOMAIN user_logs : SkipsLog(user_logs[i])
              /\ \E i \in DOMAIN user_logs :
                    /\ ~SkipsLog(user_logs[i])
                    /\ \E j \in DOMAIN user_logs[i].exercises :
                          EntryRaises(user_logs[i].exercises[j])
                    /\ \E j \in DOMAIN user_logs[i].exercises :
                          SkipsEntry(user_logs[i].exercises[j])
              /\ \E m \in DOMAIN monthly :
                    monthly[m].totalWorkouts >= 2 /\ monthly[m].totalVolume > 0

\* the log is processed and the merge of lines 617-668 runs for some entry of
\* the exercise in it
MergesExercise(log, exercise_id) ==
    /\ ~SkipsLog(log)
    /\ \E j \in DOMAIN log.exercises :
          /\ log.exercises[j].exerciseId = exercise_id
          /\ ~SkipsEntry(log.exercises[j])
          /\ ~EntryRaises(log.exercises[j])

\* positions in the user's sorted list of the logs that merge the exercise
MergedLogs(user_id, exercise_id) ==
    {i \in DOMAIN user_workouts[user_id] :
        MergesExercise(user_workouts[user_id][i], exercise_id)}

\* those of them with the earliest date
OldestMerged(user_id, exercise_id) ==
    UNION {{i \in merged :
               \A m \in merged :
                   DayOf(EffectiveDate(user_workouts[user_id][i]))
                       <= DayOf(EffectiveDate(user_workouts[user_id][m]))} :
           merged \in {MergedLogs(user_id, exercise_id)}}

\* every log of the user that contains the exercise has a date and merges it
AllDatedAndMerged(user_id, exercise_id) ==
    \A i \in DOMAIN user_workouts[user_id] :
        HasExercise(user_workouts[user_id][i], exercise_id)
            => /\ EffectiveDate(user_workouts[user_id][i]) # NoDate
               /\ MergesExercise(user_workouts[user_id][i], exercise_id)

\* C21: at the end of the compute pass the stalenessScore of every exercise
\* accumulator is the score calculate_staleness_score gives for the oldest
\* merged workout containing the exercise against the user's 20 newest logs,
\* and it is never greater than 0 when every log of the user containing the
\* exercise has a date and is merged
C21_StalenessOfOldestMerge ==
    ComputePassEnded =>
        \A u \in DOMAIN all_users_analytics :
        \A e \in DOMAIN all_users_analytics[u].exercise_analytics :
            \A score \in {all_users_analytics[u].exercise_analytics[e].stalenessScore} :
            \A oldest \in {OldestMerged(u, e)} :
                /\ oldest # {}
                /\ \A i \in oldest :
                      score = calculate_staleness_score(
                                  e, u, EffectiveDate(user_workouts[u][i]),
                                  RecentWorkouts(user_workouts[u]),
                                  exercise_metadata_cache)
                /\ AllDatedAndMerged(u, e) => score <= 0

\* the compute pass ended with an accumulator merged from workouts of two
\* different days, every log containing the exercise dated and merged, whose
\* stalenessScore is below 0
C21_NegativeScoreAfterTwoDays ==
    /\ ComputePassEnded
    /\ \E u \in DOMAIN all_users_analytics :
       \E e \in DOMAIN all_users_analytics[u].exercise_analytics :
          /\ AllDatedAndMerged(u, e)
          /\ \E i, m \in MergedLogs(u, e) :
                DayOf(EffectiveDate(user_workouts[u][i]))
                    # DayOf(EffectiveDate(user_workouts[u][m]))
          /\ all_users_analytics[u].exercise_analytics[e].stalenessScore < 0

====
